---- MODULE Spec2Model ----
(***************************************************************************)
(* Model of the cross-chain transfer orchestrator of remiFi:               *)
(* CircleService.crossChainTransfer and CircleService.waitForAttestation   *)
(* (src/unnamed/part_003), together with the collaborators they call: the  *)
(* wallet gateway (walletSDK), the attestation service (axios.get on the   *)
(* iris endpoint), the progress notifier (bot.sendMessage) and the chain.  *)
(*                                                                         *)
(* One behaviour is one call of crossChainTransfer.  Every await of the    *)
(* code is one action; the collaborators answer nondeterministically.      *)
(***************************************************************************)
EXTENDS Integers, Sequences, FiniteSets, TLC

VARIABLES
    amount,              \* argument `amount` (a string, as a sequence of characters)
    currentNetwork,      \* networkService.getCurrentNetwork().name
    destinationNetwork,  \* argument `destinationNetwork`
    pc,                  \* position of the call of crossChainTransfer
    error,               \* the error thrown to the caller, NoError while none
    result,              \* the record returned to the caller, NoResult while none
    usdcAmount,          \* local usdcAmount (part_003:192)
    approveTxId,         \* approveTxResponse.data.id, 0 while unset
    burnTxId,            \* burnTxResponse.data.id, 0 while unset
    receiveTxId,         \* receiveTxResponse.data.id, 0 while unset
    statusResponse,      \* the burn loop's statusResponse (part_003:282)
    attKey,              \* (srcDomainId, transactionHash) given to waitForAttestation
    attempts,            \* waitForAttestation's local attempts
    attestation,         \* the value waitForAttestation returned, NoAttestation while none
    txState,             \* wallet gateway: state of each transaction id
    gatewayCalls,        \* wallet gateway: the createContractExecutionTransaction calls received
    events,              \* history: notifications, submissions, terminal polls, attestation, in order
    pollCount,           \* history: pending answers seen by the poll loop that is running
    pollTick,            \* the poll loop's 2 second timer: flips at each wait once pollCount is full
    attReqs,             \* attestation service: number of requests received
    firstComplete,       \* attestation service: index of the first request answered complete, 0 if none
    earlierAllNotFound,  \* attestation service: every answer before the latest one was a 404
    lastResp,            \* attestation service: the latest answer
    thrown,              \* the error as it was thrown inside crossChainTransfer, NoError while none
    flowError,           \* the error executeMockDepositFlow throws when its bridge call rejects
    fnPc,                \* pure functions: "ready" before the application, "done" after it
    fnInput,             \* pure functions: the function applied and its arguments
    fnOutput,            \* pure functions: the values computed
    dpc,                 \* position of the deposit (_executeDeposit / executeMockDepositFlow)
    dError,              \* the error executeMockDepositFlow threw to _executeDeposit
    dResult,             \* the value executeMockDepositFlow returned to _executeDeposit
    user,                \* the `user` object _executeDeposit read and passes to the flow
    profile,             \* users table: the stored Circle ids of the user
    bankAccountId,       \* local bankAccountId, 0 while unset
    recipientAddressId,  \* local recipientAddressId / recipientId, 0 while unset
    bridgeResult,        \* local bridgeResult (README.md:320)
    providerCalls,       \* Circle business API: the calls received during the running deposit
    bridgeCalls,         \* circleService: the crossChainTransfer calls received during the running deposit
    profileWrites,       \* users table: the updates received during the running deposit
    deposits,            \* number of deposits started so far
    bankCreated,         \* Circle business API: bank accounts created so far
    recipientCreated,    \* Circle business API: recipient addresses created so far
    bankPersisted,       \* users table: bank account ids written so far
    recipientPersisted,  \* users table: recipient address ids written so far
    nextProviderId,      \* Circle business API: the id the next created object gets
    network,             \* networkService: the current network, one for the whole bot
    wallets,             \* wallets table: the rows, in insertion order
    gwWallets,           \* wallet gateway: the wallets created by createWallet
    rq                   \* the handlers running at the same time: locals and position of each

inputs  == <<amount, currentNetwork, destinationNetwork>>
ctl     == <<pc, error, thrown, result>>
txIds   == <<approveTxId, burnTxId, receiveTxId>>
locals  == <<usdcAmount, approveTxId, burnTxId, receiveTxId, statusResponse, attKey, attempts, attestation>>
gateway == <<txState, gatewayCalls>>
attSvc  == <<attReqs, firstComplete, earlierAllNotFound, lastResp>>
vars    == <<amount, currentNetwork, destinationNetwork, pc, error, result,
             usdcAmount, approveTxId, burnTxId, receiveTxId, statusResponse,
             attKey, attempts, attestation, txState, gatewayCalls, events,
             pollCount, pollTick, attReqs, firstComplete, earlierAllNotFound, lastResp,
             thrown, flowError, fnPc, fnInput, fnOutput, dpc, dError, dResult,
             user, profile, bankAccountId, recipientAddressId, bridgeResult,
             providerCalls, bridgeCalls, profileWrites, deposits, bankCreated,
             recipientCreated, bankPersisted, recipientPersisted, nextProviderId,
             network, wallets, gwWallets, rq>>
transferVars == <<inputs, ctl, locals, gateway, events, pollCount, pollTick, attSvc, flowError>>
pureVars == <<fnPc, fnInput, fnOutput>>
depositLocals == <<dpc, dError, dResult, user, bankAccountId, recipientAddressId, bridgeResult>>
depositHistory == <<providerCalls, bridgeCalls, profileWrites, deposits, bankCreated, recipientCreated,
                    bankPersisted, recipientPersisted>>
depositVars == <<depositLocals, depositHistory, profile, nextProviderId>>
\* what no step of crossChainTransfer touches
requestVars == <<network, wallets, gwWallets, rq>>
notTransferVars == <<pureVars, depositVars, requestVars>>
beyondTransfer == <<flowError, notTransferVars>>
\* what no step of the deposit touches, and what no pure function touches
beyondDeposit == <<transferVars, pureVars, requestVars>>
beyondPure == <<transferVars, depositVars, requestVars>>

(***************************************************************************)
(* Bounds of the model.                                                    *)
(***************************************************************************)
\* number of transaction ids the wallet gateway can hand out
MaxTx == 3
\* number of pending answers counted per polled transaction
MaxPolls == 2
\* largest base-unit amount whose max fee is computed on its own
MaxBaseUnits == 10000
\* number of deposits one user makes, one after the other
MaxDeposits == 2
\* number of handlers that run at the same time
NumRequests == 2

(***************************************************************************)
(* Program constants.                                                      *)
(***************************************************************************)
\* part_003:388  const maxAttempts = 30
maxAttempts == 30
\* part_003:192  BigInt(10 ** 6)
UsdcScale == 1000000
\* part_003:249  usdcAmount / BigInt(5000)
FeeDivisor == 5000

TxIds == 1..MaxTx
Reqs == 1..NumRequests

(***************************************************************************)
(* Errors that reach the caller, by their message.                         *)
(***************************************************************************)
NoError == "none"
SyntaxErrorMsg == "SyntaxError: Cannot convert amount to a BigInt"
TypeErrorMsg == "TypeError: Cannot read properties of undefined"
ReferenceErrorMsg == "ReferenceError: pad is not defined"
ApproveFailedMsg == "Approve transaction failed"
BurnFailedMsg_CopyPaste == "Approve transaction failed"
BurnFailedMsg == "Burn transaction failed"
ReceiveFailedMsg == "Receive transaction failed"
TimeoutMsg == "Timeout waiting for attestation"
GatewayErrorMsg == "wallet gateway request rejected"
NotifierErrorMsg == "bot.sendMessage rejected"
AttestationErrors == {"Request failed with status code 500", "socket hang up"}

NoResult == [approveTx |-> 0, burnTx |-> 0, receiveTx |-> 0]
NoAttestation == [message |-> "none", attestation |-> "none"]
NoHash == <<"txHash", 0>>
NoStatus == [state |-> "NONE", txHash |-> NoHash]
NoKey == << <<>>, NoHash >>

(***************************************************************************)
(* Strings are sequences of characters, so that BigInt(amount) and         *)
(* toString() are computed and not assumed.                                *)
(***************************************************************************)
DigitChars == <<"0", "1", "2", "3", "4", "5", "6", "7", "8", "9">>

DigitValue(c) ==
    IF \E d \in 1..10 : DigitChars[d] = c
    THEN (CHOOSE d \in 1..10 : DigitChars[d] = c) - 1
    ELSE -1

RECURSIVE DigitsToNat(_)
DigitsToNat(s) ==
    IF s = <<>> THEN 0
    ELSE 10 * DigitsToNat(SubSeq(s, 1, Len(s) - 1)) + DigitValue(s[Len(s)])

AllDigits(s) == s # <<>> /\ \A i \in 1..Len(s) : DigitValue(s[i]) >= 0

\* BigInt(string): the empty string is 0n, an optionally signed run of
\* decimal digits is its value, anything else (a decimal point included)
\* throws SyntaxError.
BigIntOfString(s) ==
    IF s = <<>> THEN [ok |-> TRUE, val |-> 0]
    ELSE IF AllDigits(s) THEN [ok |-> TRUE, val |-> DigitsToNat(s)]
    ELSE IF s[1] = "-" /\ AllDigits(Tail(s)) THEN [ok |-> TRUE, val |-> 0 - DigitsToNat(Tail(s))]
    ELSE IF s[1] = "+" /\ AllDigits(Tail(s)) THEN [ok |-> TRUE, val |-> DigitsToNat(Tail(s))]
    ELSE [ok |-> FALSE, val |-> 0]

RECURSIVE NatToDigits(_)
NatToDigits(n) ==
    IF n < 10 THEN <<DigitChars[n + 1]>>
    ELSE Append(NatToDigits(n \div 10), DigitChars[(n % 10) + 1])

\* BigInt.prototype.toString()
BigIntToString(n) == IF n < 0 THEN <<"-">> \o NatToDigits(0 - n) ELSE NatToDigits(n)

\* BigInt division truncates toward zero
BigIntDiv(a, b) == IF a >= 0 THEN a \div b ELSE 0 - ((0 - a) \div b)

(***************************************************************************)
(* The chain configuration registry, require("../config/cctp.js"): the     *)
(* contracts and the domain id of every supported network.  A network      *)
(* without an entry yields undefined.                                      *)
(***************************************************************************)
Networks == {"ARC-TESTNET", "BASE-SEPOLIA", "UNLISTED-NET"}

ConfiguredNetworks == {"ARC-TESTNET", "BASE-SEPOLIA"}

CCTP ==
    [contracts |-> [n \in ConfiguredNetworks |->
                      [usdc |-> <<"usdc", n>>,
                       tokenMessenger |-> <<"tokenMessenger", n>>,
                       messageTransmitter |-> <<"messageTransmitter", n>>]],
     domains   |-> [n \in ConfiguredNetworks |->
                      IF n = "ARC-TESTNET" THEN 26 ELSE 6]]

HasContracts(n) == n \in DOMAIN CCTP.contracts
HasDomain(n) == n \in DOMAIN CCTP.domains

(***************************************************************************)
(* The arguments of the call.                                              *)
(***************************************************************************)
Amounts == { <<"2", "5">>, <<"2", "5", ".", "0", "0">> }
walletId == "sourceWallet"
destinationWalletId == "destinationWallet"
\* an address: "0x" and 40 hexadecimal digits, of which the first, the
\* twentieth and the last are given
Address(c1, c2, c3) ==
    <<"0", "x">> \o [i \in 1..40 |-> IF i = 1 THEN c1
                                    ELSE IF i = 20 THEN c2
                                    ELSE IF i = 40 THEN c3
                                    ELSE "0"]

destinationAddress == Address("a", "1", "f")
chatId == "chat"

ZeroBytes32 == "0x0000000000000000000000000000000000000000000000000000000000000000"

\* the answers of the attestation service to one request
AttestationPairs ==
    { [message |-> "messageA", attestation |-> "signatureA"],
      [message |-> "messageB", attestation |-> "signatureB"] }

AttResponses ==
    { [kind |-> "complete", message |-> p.message, attestation |-> p.attestation] :
          p \in AttestationPairs }
    \cup { [kind |-> k, message |-> "none", attestation |-> "none"] :
          k \in {"incomplete", "empty", "http404"} \cup AttestationErrors }

NoResponse == [kind |-> "none", message |-> "none", attestation |-> "none"]

Ev(type, what, id) == [type |-> type, what |-> what, id |-> id]

\* no call of crossChainTransfer has begun
TransferAtRest ==
    /\ pc = "idle"
    /\ error = NoError
    /\ thrown = NoError
    /\ flowError = NoError
    /\ result = NoResult
    /\ usdcAmount = 0
    /\ approveTxId = 0
    /\ burnTxId = 0
    /\ receiveTxId = 0
    /\ statusResponse = NoStatus
    /\ attKey = NoKey
    /\ attempts = 0
    /\ attestation = NoAttestation
    /\ txState = [i \in TxIds |-> "NONE"]
    /\ gatewayCalls = <<>>
    /\ events = <<>>
    /\ pollCount = 0
    /\ pollTick = FALSE
    /\ attReqs = 0
    /\ firstComplete = 0
    /\ earlierAllNotFound = TRUE
    /\ lastResp = NoResponse

\* no pure function is being applied
PureAtRest ==
    /\ fnPc = "off"
    /\ fnInput = [fn |-> "none"]
    /\ fnOutput = [fn |-> "none"]

\* a users row without Circle ids (both columns null)
NoCircleIds == [circle_bank_account_id |-> 0, circle_recipient_address_id |-> 0]

\* what the deposit throws: an object with a message; the fallback message
\* of the provider transfer holds an address
Err(text) == [message |-> text, names |-> <<>>]

\* no deposit has begun
DepositAtRest ==
    /\ dpc = "idle"
    /\ dError = Err(NoError)
    /\ dResult = NoResult
    /\ user = NoCircleIds
    /\ bankAccountId = 0
    /\ recipientAddressId = 0
    /\ bridgeResult = NoResult
    /\ providerCalls = <<>>
    /\ bridgeCalls = <<>>
    /\ profileWrites = <<>>
    /\ deposits = 0
    /\ bankCreated = 0
    /\ recipientCreated = 0
    /\ bankPersisted = 0
    /\ recipientPersisted = 0
    /\ nextProviderId = 1

\* a wallet object as getWallet returns it; walletid 0 stands for undefined
NoWallet == [walletid |-> 0, address |-> 0]
Undefined == 0

\* what createWallet returns (part_003:78-79), reduced to the wallet's id,
\* address and blockchain
NoCreated == [walletId |-> 0, address |-> 0, blockchain |-> "none"]

\* a handler slot in which no command runs
IdleRequest ==
    [kind |-> "none", pc |-> "idle", tg_id |-> 0, reqNetwork |-> "none",
     label |-> "none", dest |-> "none", source |-> NoWallet, target |-> NoWallet,
     created |-> NoCreated, savedId |-> Undefined, called |-> FALSE, call |-> <<>>,
     srcNetwork |-> "none", approve |-> "NONE", err |-> NoError,
     row |-> NoCircleIds, bankId |-> 0, recipientId |-> 0]

\* no command is running, the wallets table is empty
RequestsAtRest ==
    /\ network = "ARC-TESTNET"
    /\ wallets = <<>>
    /\ gwWallets = <<>>
    /\ rq = [r \in Reqs |-> IdleRequest]

Init ==
    /\ amount \in Amounts
    /\ currentNetwork \in Networks
    /\ destinationNetwork \in Networks
    /\ TransferAtRest
    /\ PureAtRest
    /\ DepositAtRest
    /\ profile = NoCircleIds
    /\ RequestsAtRest

(***************************************************************************)
(* throw inside the try of crossChainTransfer: the catch (part_003:375)    *)
(* logs the error and throws what it caught.                               *)
(***************************************************************************)
TransferCatch_Wrapped(e) == "Cross-chain transfer failed"

TransferCatch(e) == e

Raise(e) ==
    /\ pc' = "raised"
    /\ thrown' = e
    /\ error' = TransferCatch(e)
    /\ result' = result

(***************************************************************************)
(* part_003:188-194: init(), getCurrentNetwork(), BigInt(amount) * 10^6,   *)
(* sourceConfig lookup.                                                    *)
(***************************************************************************)
CallTransfer ==
    /\ pc = "idle"
    /\ LET parsed == BigIntOfString(amount) IN
         IF parsed.ok
         THEN /\ usdcAmount' = parsed.val * UsdcScale
              /\ pc' = "notify_step1"
              /\ UNCHANGED <<error, thrown, result>>
         ELSE /\ Raise(SyntaxErrorMsg)
              /\ UNCHANGED usdcAmount
    /\ UNCHANGED <<inputs, txIds, statusResponse, attKey, attempts, attestation,
                   gateway, events, pollCount, pollTick, attSvc>>
    /\ UNCHANGED beyondTransfer

(***************************************************************************)
(* The progress notifications, await this.bot.sendMessage(chatId, text).   *)
(***************************************************************************)
NotifyPcs ==
    {"notify_step1", "notify_approve_ok", "notify_step2", "notify_burn_ok",
     "notify_step3", "notify_att", "notify_step4", "notify_receive_ok"}

NoteAt(p) ==
    CASE p = "notify_step1"      -> Ev("note", "Step 1/4", 0)
      [] p = "notify_approve_ok" -> Ev("note", "Approval transaction confirmed", approveTxId)
      [] p = "notify_step2"      -> Ev("note", "Step 2/4", 0)
      [] p = "notify_burn_ok"    -> Ev("note", "Burn transaction confirmed", burnTxId)
      [] p = "notify_step3"      -> Ev("note", "Step 3/4", 0)
      [] p = "notify_att"        -> Ev("note", "Attestation received", 0)
      [] p = "notify_step4"      -> Ev("note", "Step 4/4", 0)
      [] p = "notify_receive_ok" -> Ev("note", "Receive transaction confirmed", receiveTxId)

\* the step 3 notice is left out
NextAfterNote_SkipStep3(p) ==
    CASE p = "notify_step1"      -> "submit_approve"
      [] p = "notify_approve_ok" -> "notify_step2"
      [] p = "notify_step2"      -> "submit_burn"
      [] p = "notify_burn_ok"    -> "start_attest"
      [] p = "notify_step3"      -> "start_attest"
      [] p = "notify_att"        -> "notify_step4"
      [] p = "notify_step4"      -> "submit_receive"
      [] p = "notify_receive_ok" -> "return"

NextAfterNote(p) ==
    CASE p = "notify_step1"      -> "submit_approve"
      [] p = "notify_approve_ok" -> "notify_step2"
      [] p = "notify_step2"      -> "submit_burn"
      [] p = "notify_burn_ok"    -> "notify_step3"
      [] p = "notify_step3"      -> "start_attest"
      [] p = "notify_att"        -> "notify_step4"
      [] p = "notify_step4"      -> "submit_receive"
      [] p = "notify_receive_ok" -> "return"

\* the notifier delivers the message
NotifyDelivered ==
    /\ pc \in NotifyPcs
    /\ events' = Append(events, NoteAt(pc))
    /\ pc' = NextAfterNote(pc)
    /\ UNCHANGED <<error, thrown, result, inputs, locals, gateway, pollCount, pollTick, attSvc>>
    /\ UNCHANGED beyondTransfer

\* the notifier rejects: the awaited promise throws inside the try
NotifyRejected ==
    /\ pc \in NotifyPcs
    /\ Raise(NotifierErrorMsg)
    /\ UNCHANGED <<inputs, locals, gateway, events, pollCount, pollTick, attSvc>>
    /\ UNCHANGED beyondTransfer

(***************************************************************************)
(* The wallet gateway: walletSDK.createContractExecutionTransaction hands  *)
(* out an unused transaction id or rejects; walletSDK.getTransaction       *)
(* reports the transaction's state or rejects.  The chain moves a pending  *)
(* transaction to CONFIRMED or FAILED.                                     *)
(***************************************************************************)
FreshTxIds == { i \in TxIds : txState[i] = "NONE" }

Call(fn, wallet, contract, params, fee, id) ==
    [fn |-> fn, walletId |-> wallet, contractAddress |-> contract,
     abiParameters |-> params, feeLevel |-> fee, id |-> id]

TxHashOf(id, state) == IF state = "PENDING" THEN NoHash ELSE <<"txHash", id>>

ChainProgress ==
    /\ \E id \in TxIds, s \in {"CONFIRMED", "FAILED"} :
         /\ txState[id] = "PENDING"
         /\ txState' = [txState EXCEPT ![id] = s]
    /\ UNCHANGED <<inputs, ctl, locals, gatewayCalls, events, pollCount, pollTick, attSvc>>
    /\ UNCHANGED beyondTransfer

(***************************************************************************)
(* Step 1, part_003:202-218: the approve submission.                       *)
(***************************************************************************)
ApproveCall_AllowanceWithFee(id) ==
    Call("approve(address,uint256)", walletId,
         CCTP.contracts[currentNetwork].usdc,
         <<CCTP.contracts[currentNetwork].tokenMessenger, BigIntToString(usdcAmount + BigIntDiv(usdcAmount, FeeDivisor))>>,
         "LOW", id)

ApproveCall(id) ==
    Call("approve(address,uint256)", walletId,
         CCTP.contracts[currentNetwork].usdc,
         <<CCTP.contracts[currentNetwork].tokenMessenger, BigIntToString(usdcAmount)>>,
         "LOW", id)

SubmitApprove ==
    /\ pc = "submit_approve"
    /\ \/ /\ Raise(GatewayErrorMsg)
          /\ UNCHANGED <<approveTxId, gateway, events, pollCount, pollTick>>
       \/ IF ~HasContracts(currentNetwork)
          THEN /\ Raise(TypeErrorMsg)
               /\ UNCHANGED <<approveTxId, gateway, events, pollCount, pollTick>>
          ELSE \/ /\ gatewayCalls' = Append(gatewayCalls, ApproveCall(0))
                  /\ events' = Append(events, Ev("submit", "approve", 0))
                  /\ Raise(GatewayErrorMsg)
                  /\ UNCHANGED <<approveTxId, txState, pollCount, pollTick>>
               \/ \E id \in FreshTxIds :
                    /\ gatewayCalls' = Append(gatewayCalls, ApproveCall(id))
                    /\ txState' = [txState EXCEPT ![id] = "PENDING"]
                    /\ approveTxId' = id
                    /\ events' = Append(events, Ev("submit", "approve", id))
                    /\ pollCount' = 0
                    /\ pollTick' = FALSE
                    /\ pc' = "poll_approve"
                    /\ UNCHANGED <<error, thrown, result>>
    /\ UNCHANGED <<inputs, usdcAmount, burnTxId, receiveTxId, statusResponse,
                   attKey, attempts, attestation, attSvc>>
    /\ UNCHANGED beyondTransfer

(***************************************************************************)
(* part_003:223-235: the approve status poll loop.                         *)
(***************************************************************************)
\* the loop leaves on the first answer that is not FAILED
PollApprove_NoWait ==
    /\ pc = "poll_approve"
    /\ \/ /\ Raise(GatewayErrorMsg)
          /\ pollCount' = 0
          /\ pollTick' = FALSE
          /\ UNCHANGED events
       \/ /\ txState[approveTxId] = "FAILED"
          /\ events' = Append(events, Ev("poll_failed", "approve", approveTxId))
          /\ Raise(ApproveFailedMsg)
          /\ pollCount' = 0
          /\ pollTick' = FALSE
       \/ /\ txState[approveTxId] = "CONFIRMED"
          /\ events' = Append(events, Ev("poll_confirmed", "approve", approveTxId))
          /\ pc' = "notify_approve_ok"
          /\ pollCount' = 0
          /\ pollTick' = FALSE
          /\ UNCHANGED <<error, thrown, result>>
       \/ /\ txState[approveTxId] \notin {"FAILED", "CONFIRMED"}
          /\ pc' = "notify_approve_ok"
          /\ pollCount' = 0
          /\ pollTick' = FALSE
          /\ UNCHANGED <<error, thrown, result, events>>
    /\ UNCHANGED <<inputs, locals, gateway, attSvc>>
    /\ UNCHANGED beyondTransfer

\* a FAILED answer sends the call back to the approve submission
PollApprove_Retry ==
    /\ pc = "poll_approve"
    /\ \/ /\ Raise(GatewayErrorMsg)
          /\ pollCount' = 0
          /\ pollTick' = FALSE
          /\ UNCHANGED events
       \/ /\ txState[approveTxId] = "FAILED"
          /\ events' = Append(events, Ev("poll_failed", "approve", approveTxId))
          /\ pc' = "submit_approve"
          /\ pollCount' = 0
          /\ pollTick' = FALSE
          /\ UNCHANGED <<error, thrown, result>>
       \/ /\ txState[approveTxId] = "CONFIRMED"
          /\ events' = Append(events, Ev("poll_confirmed", "approve", approveTxId))
          /\ pc' = "notify_approve_ok"
          /\ pollCount' = 0
          /\ pollTick' = FALSE
          /\ UNCHANGED <<error, thrown, result>>
       \/ /\ txState[approveTxId] \notin {"FAILED", "CONFIRMED"}
          /\ pollCount' = IF pollCount < MaxPolls THEN pollCount + 1 ELSE pollCount
          /\ pollTick' = IF pollCount < MaxPolls THEN pollTick ELSE ~pollTick
          /\ UNCHANGED <<ctl, events>>
    /\ UNCHANGED <<inputs, locals, gateway, attSvc>>
    /\ UNCHANGED beyondTransfer

PollApprove ==
    /\ pc = "poll_approve"
    /\ \/ /\ Raise(GatewayErrorMsg)
          /\ pollCount' = 0
          /\ pollTick' = FALSE
          /\ UNCHANGED events
       \/ /\ txState[approveTxId] = "FAILED"
          /\ events' = Append(events, Ev("poll_failed", "approve", approveTxId))
          /\ Raise(ApproveFailedMsg)
          /\ pollCount' = 0
          /\ pollTick' = FALSE
       \/ /\ txState[approveTxId] = "CONFIRMED"
          /\ events' = Append(events, Ev("poll_confirmed", "approve", approveTxId))
          /\ pc' = "notify_approve_ok"
          /\ pollCount' = 0
          /\ pollTick' = FALSE
          /\ UNCHANGED <<error, thrown, result>>
       \/ /\ txState[approveTxId] \notin {"FAILED", "CONFIRMED"}
          /\ pollCount' = IF pollCount < MaxPolls THEN pollCount + 1 ELSE pollCount
          /\ pollTick' = IF pollCount < MaxPolls THEN pollTick ELSE ~pollTick
          /\ UNCHANGED <<ctl, events>>
    /\ UNCHANGED <<inputs, locals, gateway, attSvc>>
    /\ UNCHANGED beyondTransfer

(***************************************************************************)
(* Step 2, part_003:247-276: pad, maxFee and the burn submission.  The     *)
(* file binds no `pad`: evaluating the call throws ReferenceError unless   *)
(* the runtime supplies a global of that name, so both outcomes are kept.  *)
(***************************************************************************)
\* pad(destinationAddress): the address as a 32-byte value, zeros on the left
Pad_Right(hex) ==
    LET digits == SubSeq(hex, 3, Len(hex)) IN
      <<"0", "x">> \o digits \o [i \in 1..(64 - Len(digits)) |-> "0"]

Pad(hex) ==
    LET digits == SubSeq(hex, 3, Len(hex)) IN
      <<"0", "x">> \o [i \in 1..(64 - Len(digits)) |-> "0"] \o digits

MaxFeeOf_RoundsUp(baseUnits) == BigIntDiv(baseUnits + FeeDivisor - 1, FeeDivisor)

MaxFeeOf(baseUnits) == BigIntDiv(baseUnits, FeeDivisor)

BurnCall(id) ==
    Call("depositForBurn(uint256,uint32,bytes32,address,bytes32,uint256,uint32)",
         walletId,
         CCTP.contracts[currentNetwork].tokenMessenger,
         <<BigIntToString(usdcAmount),
           NatToDigits(CCTP.domains[destinationNetwork]),
           Pad(destinationAddress),
           CCTP.contracts[currentNetwork].usdc,
           ZeroBytes32,
           BigIntToString(MaxFeeOf(usdcAmount)),
           "1000">>,
         "MEDIUM", id)

SubmitBurn ==
    /\ pc = "submit_burn"
    /\ \/ /\ Raise(ReferenceErrorMsg)
          /\ UNCHANGED <<burnTxId, gateway, events, pollCount, pollTick>>
       \/ /\ Raise(GatewayErrorMsg)
          /\ UNCHANGED <<burnTxId, gateway, events, pollCount, pollTick>>
       \/ IF ~HasDomain(destinationNetwork)
          THEN /\ Raise(TypeErrorMsg)
               /\ UNCHANGED <<burnTxId, gateway, events, pollCount, pollTick>>
          ELSE \/ /\ gatewayCalls' = Append(gatewayCalls, BurnCall(0))
                  /\ events' = Append(events, Ev("submit", "burn", 0))
                  /\ Raise(GatewayErrorMsg)
                  /\ UNCHANGED <<burnTxId, txState, pollCount, pollTick>>
               \/ \E id \in FreshTxIds :
                    /\ gatewayCalls' = Append(gatewayCalls, BurnCall(id))
                    /\ txState' = [txState EXCEPT ![id] = "PENDING"]
                    /\ burnTxId' = id
                    /\ events' = Append(events, Ev("submit", "burn", id))
                    /\ pollCount' = 0
                    /\ pollTick' = FALSE
                    /\ pc' = "poll_burn"
                    /\ UNCHANGED <<error, thrown, result>>
    /\ UNCHANGED <<inputs, usdcAmount, approveTxId, receiveTxId, statusResponse,
                   attKey, attempts, attestation, attSvc>>
    /\ UNCHANGED beyondTransfer

(***************************************************************************)
(* part_003:281-294: the burn status poll loop; statusResponse outlives    *)
(* the loop.                                                               *)
(***************************************************************************)
\* the FAILED test is missing: a FAILED answer is taken as the end of the wait
PollBurn_IgnoreFailed ==
    /\ pc = "poll_burn"
    /\ \/ /\ Raise(GatewayErrorMsg)
          /\ pollCount' = 0
          /\ pollTick' = FALSE
          /\ UNCHANGED <<events, statusResponse>>
       \/ /\ txState[burnTxId] = "FAILED"
          /\ statusResponse' = [state |-> "FAILED", txHash |-> TxHashOf(burnTxId, "FAILED")]
          /\ events' = Append(events, Ev("poll_failed", "burn", burnTxId))
          /\ pc' = "notify_burn_ok"
          /\ pollCount' = 0
          /\ pollTick' = FALSE
          /\ UNCHANGED <<error, thrown, result>>
       \/ /\ txState[burnTxId] = "CONFIRMED"
          /\ statusResponse' = [state |-> "CONFIRMED", txHash |-> TxHashOf(burnTxId, "CONFIRMED")]
          /\ events' = Append(events, Ev("poll_confirmed", "burn", burnTxId))
          /\ pc' = "notify_burn_ok"
          /\ pollCount' = 0
          /\ pollTick' = FALSE
          /\ UNCHANGED <<error, thrown, result>>
       \/ /\ txState[burnTxId] \notin {"FAILED", "CONFIRMED"}
          /\ statusResponse' = [state |-> "PENDING", txHash |-> TxHashOf(burnTxId, "PENDING")]
          /\ pollCount' = IF pollCount < MaxPolls THEN pollCount + 1 ELSE pollCount
          /\ pollTick' = IF pollCount < MaxPolls THEN pollTick ELSE ~pollTick
          /\ UNCHANGED <<ctl, events>>
    /\ UNCHANGED <<inputs, usdcAmount, txIds, attKey, attempts, attestation,
                   gateway, attSvc>>
    /\ UNCHANGED beyondTransfer

PollBurn ==
    /\ pc = "poll_burn"
    /\ \/ /\ Raise(GatewayErrorMsg)
          /\ pollCount' = 0
          /\ pollTick' = FALSE
          /\ UNCHANGED <<events, statusResponse>>
       \/ /\ txState[burnTxId] = "FAILED"
          /\ statusResponse' = [state |-> "FAILED", txHash |-> TxHashOf(burnTxId, "FAILED")]
          /\ events' = Append(events, Ev("poll_failed", "burn", burnTxId))
          /\ Raise(BurnFailedMsg)
          /\ pollCount' = 0
          /\ pollTick' = FALSE
       \/ /\ txState[burnTxId] = "CONFIRMED"
          /\ statusResponse' = [state |-> "CONFIRMED", txHash |-> TxHashOf(burnTxId, "CONFIRMED")]
          /\ events' = Append(events, Ev("poll_confirmed", "burn", burnTxId))
          /\ pc' = "notify_burn_ok"
          /\ pollCount' = 0
          /\ pollTick' = FALSE
          /\ UNCHANGED <<error, thrown, result>>
       \/ /\ txState[burnTxId] \notin {"FAILED", "CONFIRMED"}
          /\ statusResponse' = [state |-> "PENDING", txHash |-> TxHashOf(burnTxId, "PENDING")]
          /\ pollCount' = IF pollCount < MaxPolls THEN pollCount + 1 ELSE pollCount
          /\ pollTick' = IF pollCount < MaxPolls THEN pollTick ELSE ~pollTick
          /\ UNCHANGED <<ctl, events>>
    /\ UNCHANGED <<inputs, usdcAmount, txIds, attKey, attempts, attestation,
                   gateway, attSvc>>
    /\ UNCHANGED beyondTransfer

(***************************************************************************)
(* Step 3, part_003:308-318: the key of the attestation lookup and the     *)
(* call of waitForAttestation.                                             *)
(***************************************************************************)
StartAttestation_KeyedByApprove ==
    /\ pc = "start_attest"
    /\ IF ~HasDomain(currentNetwork)
       THEN /\ Raise(TypeErrorMsg)
            /\ UNCHANGED <<attKey, attempts>>
       ELSE /\ attKey' = <<NatToDigits(CCTP.domains[currentNetwork]), TxHashOf(approveTxId, "CONFIRMED")>>
            /\ attempts' = 0
            /\ pc' = "att_loop"
            /\ UNCHANGED <<error, thrown, result>>
    /\ UNCHANGED <<inputs, usdcAmount, txIds, statusResponse, attestation,
                   gateway, events, pollCount, pollTick, attSvc>>
    /\ UNCHANGED beyondTransfer

StartAttestation ==
    /\ pc = "start_attest"
    /\ IF ~HasDomain(currentNetwork)
       THEN /\ Raise(TypeErrorMsg)
            /\ UNCHANGED <<attKey, attempts>>
       ELSE /\ attKey' = <<NatToDigits(CCTP.domains[currentNetwork]), statusResponse.txHash>>
            /\ attempts' = 0
            /\ pc' = "att_loop"
            /\ UNCHANGED <<error, thrown, result>>
    /\ UNCHANGED <<inputs, usdcAmount, txIds, statusResponse, attestation,
                   gateway, events, pollCount, pollTick, attSvc>>
    /\ UNCHANGED beyondTransfer

(***************************************************************************)
(* waitForAttestation, part_003:387-427.                                   *)
(***************************************************************************)
\* the loop test with <= in place of <
AttLoopCond_Inclusive == attempts <= maxAttempts

\* part_003:392  while (attempts < maxAttempts)
AttLoopCond == attempts < maxAttempts

\* axios.get rejects on a non-2xx status and on a transport error
IsRequestError(r) == r.kind \in {"http404"} \cup AttestationErrors

\* every successful response is taken as the attestation
IsComplete_AnySuccess(r) == r.kind \in {"complete", "incomplete", "empty"}

\* part_003:407  response.data?.messages?.[0]?.status === "complete"
IsComplete(r) == r.kind = "complete"

\* the two fields of the returned pair exchanged
AttestationOf_Swapped(r) == [message |-> r.attestation, attestation |-> r.message]

\* part_003:408-409  the returned pair
AttestationOf(r) == [message |-> r.message, attestation |-> r.attestation]

\* every request error is taken as not ready yet
IsNotReadyYet_AnyError(r) == TRUE

\* part_003:412  error.response?.status === 404
IsNotReadyYet(r) == r.kind = "http404"

AttestationAttempt ==
    /\ pc = "att_loop"
    /\ AttLoopCond
    /\ attempts' = attempts + 1
    /\ \E r \in AttResponses :
         /\ attReqs' = attReqs + 1
         /\ lastResp' = r
         /\ earlierAllNotFound' = (attReqs = 0 \/ (earlierAllNotFound /\ lastResp.kind = "http404"))
         /\ firstComplete' = IF r.kind = "complete" /\ firstComplete = 0
                             THEN attReqs + 1 ELSE firstComplete
         /\ IF ~IsRequestError(r)
            THEN IF IsComplete(r)
                 THEN /\ attestation' = AttestationOf(r)
                      /\ events' = Append(events, Ev("attested", "attestation", 0))
                      /\ pc' = "notify_att"
                      /\ UNCHANGED <<error, thrown, result>>
                 ELSE UNCHANGED <<ctl, attestation, events>>
            ELSE IF IsNotReadyYet(r)
                 THEN UNCHANGED <<ctl, attestation, events>>
                 ELSE /\ Raise(r.kind)
                      /\ UNCHANGED <<attestation, events>>
    /\ UNCHANGED <<inputs, usdcAmount, txIds, statusResponse, attKey,
                   gateway, pollCount, pollTick>>
    /\ UNCHANGED beyondTransfer

\* part_003:422  throw new Error("Timeout waiting for attestation")
AttestationTimeout_ReturnsNothing ==
    /\ pc = "att_loop"
    /\ ~AttLoopCond
    /\ pc' = "notify_att"
    /\ UNCHANGED <<error, thrown, result, inputs, locals, gateway, events, pollCount, pollTick, attSvc>>
    /\ UNCHANGED beyondTransfer

AttestationTimeout ==
    /\ pc = "att_loop"
    /\ ~AttLoopCond
    /\ Raise(TimeoutMsg)
    /\ UNCHANGED <<inputs, locals, gateway, events, pollCount, pollTick, attSvc>>
    /\ UNCHANGED beyondTransfer

(***************************************************************************)
(* Step 4, part_003:326-345: the receive submission on the destination.    *)
(***************************************************************************)
ReceiveCall_OnSourceSide(id) ==
    Call("receiveMessage(bytes,bytes)", walletId,
         CCTP.contracts[currentNetwork].messageTransmitter,
         <<attestation.message, attestation.attestation>>,
         "MEDIUM", id)

ReceiveCall(id) ==
    Call("receiveMessage(bytes,bytes)", destinationWalletId,
         CCTP.contracts[destinationNetwork].messageTransmitter,
         <<attestation.message, attestation.attestation>>,
         "MEDIUM", id)

SubmitReceive ==
    /\ pc = "submit_receive"
    /\ \/ /\ Raise(GatewayErrorMsg)
          /\ UNCHANGED <<receiveTxId, gateway, events, pollCount, pollTick>>
       \/ IF ~HasContracts(destinationNetwork)
          THEN /\ Raise(TypeErrorMsg)
               /\ UNCHANGED <<receiveTxId, gateway, events, pollCount, pollTick>>
          ELSE \/ /\ gatewayCalls' = Append(gatewayCalls, ReceiveCall(0))
                  /\ events' = Append(events, Ev("submit", "receive", 0))
                  /\ Raise(GatewayErrorMsg)
                  /\ UNCHANGED <<receiveTxId, txState, pollCount, pollTick>>
               \/ \E id \in FreshTxIds :
                    /\ gatewayCalls' = Append(gatewayCalls, ReceiveCall(id))
                    /\ txState' = [txState EXCEPT ![id] = "PENDING"]
                    /\ receiveTxId' = id
                    /\ events' = Append(events, Ev("submit", "receive", id))
                    /\ pollCount' = 0
                    /\ pollTick' = FALSE
                    /\ pc' = "poll_receive"
                    /\ UNCHANGED <<error, thrown, result>>
    /\ UNCHANGED <<inputs, usdcAmount, approveTxId, burnTxId, statusResponse,
                   attKey, attempts, attestation, attSvc>>
    /\ UNCHANGED beyondTransfer

(***************************************************************************)
(* part_003:350-363: the receive status poll loop.                         *)
(***************************************************************************)
PollReceive_IgnoresFailed ==
    /\ pc = "poll_receive"
    /\ \/ /\ Raise(GatewayErrorMsg)
          /\ pollCount' = 0
          /\ pollTick' = FALSE
          /\ UNCHANGED events
       \/ /\ txState[receiveTxId] = "CONFIRMED"
          /\ events' = Append(events, Ev("poll_confirmed", "receive", receiveTxId))
          /\ pc' = "notify_receive_ok"
          /\ pollCount' = 0
          /\ pollTick' = FALSE
          /\ UNCHANGED <<error, thrown, result>>
       \/ /\ txState[receiveTxId] # "CONFIRMED"
          /\ pollCount' = IF pollCount < MaxPolls THEN pollCount + 1 ELSE pollCount
          /\ pollTick' = IF pollCount < MaxPolls THEN pollTick ELSE ~pollTick
          /\ UNCHANGED <<ctl, events>>
    /\ UNCHANGED <<inputs, locals, gateway, attSvc>>
    /\ UNCHANGED beyondTransfer

PollReceive_GivesUp ==
    /\ pc = "poll_receive"
    /\ \/ /\ Raise(GatewayErrorMsg)
          /\ pollCount' = 0
          /\ pollTick' = FALSE
          /\ UNCHANGED events
       \/ /\ txState[receiveTxId] = "FAILED"
          /\ events' = Append(events, Ev("poll_failed", "receive", receiveTxId))
          /\ Raise(ReceiveFailedMsg)
          /\ pollCount' = 0
          /\ pollTick' = FALSE
       \/ /\ txState[receiveTxId] = "CONFIRMED"
          /\ events' = Append(events, Ev("poll_confirmed", "receive", receiveTxId))
          /\ pc' = "notify_receive_ok"
          /\ pollCount' = 0
          /\ pollTick' = FALSE
          /\ UNCHANGED <<error, thrown, result>>
       \/ /\ txState[receiveTxId] \notin {"FAILED", "CONFIRMED"}
          /\ pollCount = MaxPolls
          /\ Raise(TimeoutMsg)
          /\ pollCount' = 0
          /\ pollTick' = FALSE
          /\ UNCHANGED events
       \/ /\ txState[receiveTxId] \notin {"FAILED", "CONFIRMED"}
          /\ pollCount < MaxPolls
          /\ pollCount' = IF pollCount < MaxPolls THEN pollCount + 1 ELSE pollCount
          /\ pollTick' = IF pollCount < MaxPolls THEN pollTick ELSE ~pollTick
          /\ UNCHANGED <<ctl, events>>
    /\ UNCHANGED <<inputs, locals, gateway, attSvc>>
    /\ UNCHANGED beyondTransfer

PollReceive ==
    /\ pc = "poll_receive"
    /\ \/ /\ Raise(GatewayErrorMsg)
          /\ pollCount' = 0
          /\ pollTick' = FALSE
          /\ UNCHANGED events
       \/ /\ txState[receiveTxId] = "FAILED"
          /\ events' = Append(events, Ev("poll_failed", "receive", receiveTxId))
          /\ Raise(ReceiveFailedMsg)
          /\ pollCount' = 0
          /\ pollTick' = FALSE
       \/ /\ txState[receiveTxId] = "CONFIRMED"
          /\ events' = Append(events, Ev("poll_confirmed", "receive", receiveTxId))
          /\ pc' = "notify_receive_ok"
          /\ pollCount' = 0
          /\ pollTick' = FALSE
          /\ UNCHANGED <<error, thrown, result>>
       \/ /\ txState[receiveTxId] \notin {"FAILED", "CONFIRMED"}
          /\ pollCount' = IF pollCount < MaxPolls THEN pollCount + 1 ELSE pollCount
          /\ pollTick' = IF pollCount < MaxPolls THEN pollTick ELSE ~pollTick
          /\ UNCHANGED <<ctl, events>>
    /\ UNCHANGED <<inputs, locals, gateway, attSvc>>
    /\ UNCHANGED beyondTransfer

(***************************************************************************)
(* part_003:370-374: the returned record.                                  *)
(***************************************************************************)
\* burnTx filled from the approve response
TransferRecord_Swapped ==
    [approveTx |-> approveTxId, burnTx |-> approveTxId, receiveTx |-> receiveTxId]

TransferRecord ==
    [approveTx |-> approveTxId, burnTx |-> burnTxId, receiveTx |-> receiveTxId]

Return ==
    /\ pc = "return"
    /\ result' = TransferRecord
    /\ pc' = "returned"
    /\ UNCHANGED <<error, thrown, inputs, locals, gateway, events, pollCount, pollTick, attSvc>>
    /\ UNCHANGED beyondTransfer

(***************************************************************************)
(* The call from the deposit flow, README.md:320-328 (executeMockDeposit-  *)
(* Flow): const bridgeResult = await circleService.crossChainTransfer(...) *)
(* stands in no try block, so a rejection of the transfer is thrown on by  *)
(* executeMockDepositFlow to its own caller.                               *)
(***************************************************************************)
BridgeCallRejects ==
    /\ pc = "raised"
    /\ flowError = NoError
    /\ flowError' = error
    /\ UNCHANGED <<inputs, ctl, locals, gateway, events, pollCount, pollTick, attSvc,
                   notTransferVars>>

Next ==
    \/ CallTransfer
    \/ NotifyDelivered
    \/ NotifyRejected
    \/ SubmitApprove
    \/ PollApprove
    \/ SubmitBurn
    \/ PollBurn
    \/ StartAttestation
    \/ AttestationAttempt
    \/ AttestationTimeout
    \/ SubmitReceive
    \/ PollReceive
    \/ Return
    \/ ChainProgress
    \/ BridgeCallRejects

Spec == Init /\ [][Next]_vars

\* the steps of crossChainTransfer: each is the return of an awaited call
TransferStep ==
    \/ NotifyDelivered
    \/ NotifyRejected
    \/ SubmitApprove
    \/ PollApprove
    \/ SubmitBurn
    \/ PollBurn
    \/ StartAttestation
    \/ AttestationAttempt
    \/ AttestationTimeout
    \/ SubmitReceive
    \/ PollReceive
    \/ Return

\* one transfer between configured networks
LiveInit ==
    /\ amount = <<"2", "5">>
    /\ currentNetwork = "ARC-TESTNET"
    /\ destinationNetwork = "BASE-SEPOLIA"
    /\ TransferAtRest
    /\ PureAtRest
    /\ DepositAtRest
    /\ profile = NoCircleIds
    /\ RequestsAtRest

\* every awaited call returns, and the chain decides every submitted
\* transaction
LiveSpec ==
    /\ LiveInit
    /\ [][Next]_vars
    /\ WF_vars(TransferStep)
    /\ WF_vars(ChainProgress)

(***************************************************************************)
(* Reading the history.                                                    *)
(***************************************************************************)
Has(type, what) ==
    \E i \in 1..Len(events) : events[i].type = type /\ events[i].what = what

\* position of the first event of that type and subject, 0 if there is none
Pos(type, what) ==
    IF Has(type, what)
    THEN CHOOSE i \in 1..Len(events) :
           /\ events[i].type = type /\ events[i].what = what
           /\ \A j \in 1..(i - 1) : ~(events[j].type = type /\ events[j].what = what)
    ELSE 0

Count(type, what) ==
    Cardinality({ i \in 1..Len(events) : events[i].type = type /\ events[i].what = what })

IsNote(e) == e.type = "note"
IsSubmit(e) == e.type = "submit"

Notes == SelectSeq(events, IsNote)
Submissions == SelectSeq(events, IsSubmit)

IsPrefix(s, t) == Len(s) <= Len(t) /\ \A i \in 1..Len(s) : s[i] = t[i]

StepOrder == <<"approve", "burn", "receive">>

FailedMsgOf(what) ==
    CASE what = "approve" -> ApproveFailedMsg
      [] what = "burn"    -> BurnFailedMsg
      [] what = "receive" -> ReceiveFailedMsg

\* C1: the submissions follow the order approve, burn, attestation lookup,
\* receive: a burn submission is preceded by a poll of the approve transaction
\* that answered CONFIRMED, an attestation request by a poll of the burn
\* transaction that answered CONFIRMED, and a receive submission by the
\* return of the attestation poller.
C1_FixedStepOrder ==
    /\ \A i \in 1..Len(Submissions) : Submissions[i].what = StepOrder[i]
    /\ Has("submit", "burn") =>
         /\ Has("poll_confirmed", "approve")
         /\ Pos("poll_confirmed", "approve") < Pos("submit", "burn")
         /\ events[Pos("poll_confirmed", "approve")].id = approveTxId
    /\ attReqs > 0 =>
         /\ Has("poll_confirmed", "burn")
         /\ events[Pos("poll_confirmed", "burn")].id = burnTxId
         /\ Pos("submit", "burn") < Pos("poll_confirmed", "burn")
    /\ Has("submit", "receive") =>
         /\ Has("attested", "attestation")
         /\ Pos("attested", "attestation") < Pos("submit", "receive")
         /\ Pos("poll_confirmed", "burn") < Pos("attested", "attestation")
         /\ attReqs > 0

C1_Witness ==
    /\ Has("submit", "receive")
    /\ receiveTxId # 0

\* C2: a status poll that answers FAILED aborts the transfer at that poll
\* with the error of that step, and nothing of a later step is issued: after
\* a failed approve no burn, no attestation request and no receive; after a
\* failed burn no attestation request and no receive, the approve
\* transaction still CONFIRMED.
C2_FailedPollAborts ==
    /\ \A i \in 1..Len(events) :
         events[i].type = "poll_failed" =>
           /\ i = Len(events)
           /\ pc = "raised"
           /\ error = FailedMsgOf(events[i].what)
    /\ Has("poll_failed", "approve") =>
         /\ ~Has("submit", "burn")
         /\ ~Has("submit", "receive")
         /\ attReqs = 0
    /\ Has("poll_failed", "burn") =>
         /\ ~Has("submit", "receive")
         /\ attReqs = 0
         /\ txState[approveTxId] = "CONFIRMED"
    /\ Has("poll_failed", "receive") =>
         Len(Submissions) = 3

C2_Witness ==
    /\ Has("poll_failed", "burn")
    /\ error = BurnFailedMsg

\* C3: within one call each of approve, burn and receive is submitted at
\* most once, whatever the outcome, and the gateway receives no other
\* transaction (no resubmission, no compensating transaction).
C3_SubmittedAtMostOnce ==
    /\ \A k \in {"approve", "burn", "receive"} : Count("submit", k) <= 1
    /\ Len(gatewayCalls) = Len(Submissions)
    /\ Len(gatewayCalls) <= 3
    /\ \A i \in 1..Len(gatewayCalls) :
         gatewayCalls[i].fn =
           CASE Submissions[i].what = "approve" -> "approve(address,uint256)"
             [] Submissions[i].what = "burn" ->
                  "depositForBurn(uint256,uint32,bytes32,address,bytes32,uint256,uint32)"
             [] Submissions[i].what = "receive" -> "receiveMessage(bytes,bytes)"

C3_Witness ==
    /\ pc = "raised"
    /\ error = ReceiveFailedMsg
    /\ Len(gatewayCalls) = 3

\* C4: when the attestation service first answers complete on request k
\* (1 <= k <= 30) after answering only not-found before, waitForAttestation
\* returns the message and attestation of that answer, having issued
\* exactly k requests.
C4_ReturnsAtFirstComplete ==
    (firstComplete > 0 /\ earlierAllNotFound) =>
        /\ firstComplete \in 1..30
        /\ attReqs = firstComplete
        /\ attempts = firstComplete
        /\ lastResp.kind = "complete"
        /\ attestation = [message |-> lastResp.message, attestation |-> lastResp.attestation]
        /\ pc # "att_loop"
        /\ error \notin {TimeoutMsg} \cup AttestationErrors

C4_Witness ==
    /\ firstComplete = 30
    /\ earlierAllNotFound
    /\ attestation # NoAttestation

\* C5: waitForAttestation issues at most 30 requests; when the 30th is
\* unsuccessful too, the wait ends with the timeout error, and the timeout
\* error is raised only then.
C5_AtMostThirtyRequests ==
    /\ attReqs <= 30
    /\ error = TimeoutMsg => (attReqs = 30 /\ attempts = 30 /\ firstComplete = 0)
    /\ (attReqs = 30 /\ lastResp.kind \in {"http404", "incomplete", "empty"}) =>
         \/ pc = "att_loop" /\ ~AttLoopCond
         \/ pc = "raised" /\ error = TimeoutMsg

C5_Witness ==
    /\ error = TimeoutMsg
    /\ attReqs = 30

\* C6: in waitForAttestation a 404 answer is followed by another attempt
\* while attempts remain, and any other request error ends the wait at once
\* with that error, no further request being issued.
C6_NotFoundRetriedOtherErrorsAbort ==
    /\ lastResp.kind \in AttestationErrors =>
         /\ pc = "raised"
         /\ error = lastResp.kind
    /\ (lastResp.kind = "http404" /\ attempts < maxAttempts) =>
         /\ pc = "att_loop"
         /\ error = NoError
         /\ attReqs = attempts

C6_Witness ==
    /\ lastResp.kind \in AttestationErrors
    /\ attReqs >= 2
    /\ earlierAllNotFound
    /\ pc = "raised"

\* C7: a rejected bot.sendMessage never aborts the transfer: no call ends
\* with the notifier's error.
C7_NotifierFailureIgnored ==
    ~(pc = "raised" /\ error = NotifierErrorMsg)

ExpectedNotes ==
    << Ev("note", "Step 1/4", 0),
       Ev("note", "Approval transaction confirmed", approveTxId),
       Ev("note", "Step 2/4", 0),
       Ev("note", "Burn transaction confirmed", burnTxId),
       Ev("note", "Step 3/4", 0),
       Ev("note", "Attestation received", 0),
       Ev("note", "Step 4/4", 0),
       Ev("note", "Receive transaction confirmed", receiveTxId) >>

NotePos(text) ==
    IF \E i \in 1..Len(events) : IsNote(events[i]) /\ events[i].what = text
    THEN CHOOSE i \in 1..Len(events) : IsNote(events[i]) /\ events[i].what = text
    ELSE 0

\* C8: a successful transfer has emitted exactly the eight notifications, in
\* the order step 1, approve confirmed, step 2, burn confirmed, step 3,
\* attestation received, step 4, receive confirmed; a step's notice precedes
\* the step's submission and a confirmation notice follows the confirmation.
C8_EightNotificationsInOrder ==
    /\ \A i \in 1..Len(Notes) : i <= 8 /\ Notes[i].what = ExpectedNotes[i].what
    /\ pc = "returned" =>
         /\ Notes = ExpectedNotes
         /\ NotePos("Step 1/4") < Pos("submit", "approve")
         /\ Pos("poll_confirmed", "approve") < NotePos("Approval transaction confirmed")
         /\ NotePos("Step 2/4") < Pos("submit", "burn")
         /\ Pos("poll_confirmed", "burn") < NotePos("Burn transaction confirmed")
         /\ NotePos("Step 3/4") < Pos("attested", "attestation")
         /\ Pos("attested", "attestation") < NotePos("Attestation received")
         /\ NotePos("Step 4/4") < Pos("submit", "receive")
         /\ Pos("poll_confirmed", "receive") < NotePos("Receive transaction confirmed")
    /\ Has("submit", "approve") => NotePos("Step 1/4") > 0
    /\ Has("submit", "burn") => NotePos("Step 2/4") > 0
    /\ attReqs > 0 => NotePos("Step 3/4") > 0
    /\ Has("submit", "receive") => NotePos("Step 4/4") > 0

C8_Witness ==
    /\ pc = "returned"
    /\ Len(Notes) = 8

\* the id the gateway returned for the submission with that function
IdReturnedFor(fn) ==
    LET i == CHOOSE k \in 1..Len(gatewayCalls) : gatewayCalls[k].fn = fn
    IN gatewayCalls[i].id

\* C9: the transfer returns only after the approve, burn and receive
\* transactions have each been polled as CONFIRMED, and the returned record
\* holds the ids the gateway returned for the approve, burn and receive
\* submissions of this call, in approveTx, burnTx and receiveTx.
C9_ReturnsConfirmedIds ==
    pc = "returned" =>
        /\ Len(gatewayCalls) = 3
        /\ \A k \in {"approve", "burn", "receive"} : Count("poll_confirmed", k) = 1
        /\ events[Pos("poll_confirmed", "approve")].id = result.approveTx
        /\ events[Pos("poll_confirmed", "burn")].id = result.burnTx
        /\ events[Pos("poll_confirmed", "receive")].id = result.receiveTx
        /\ result.approveTx = IdReturnedFor("approve(address,uint256)")
        /\ result.burnTx =
             IdReturnedFor("depositForBurn(uint256,uint32,bytes32,address,bytes32,uint256,uint32)")
        /\ result.receiveTx = IdReturnedFor("receiveMessage(bytes,bytes)")
        /\ \A k \in {result.approveTx, result.burnTx, result.receiveTx} :
             k \in TxIds /\ txState[k] = "CONFIRMED"
        /\ Cardinality({result.approveTx, result.burnTx, result.receiveTx}) = 3

C9_Witness ==
    /\ pc = "returned"
    /\ result # NoResult

\* the errors that come from a collaborator's failure
CollaboratorErrors ==
    {GatewayErrorMsg, NotifierErrorMsg, ApproveFailedMsg, BurnFailedMsg,
     ReceiveFailedMsg, TimeoutMsg} \cup AttestationErrors

\* C10: a transfer of the amount "25.00" between configured networks fails
\* only if one of the underlying calls fails: when all of them succeed it
\* returns the record of three transaction ids.
C10_Scenario1Returns ==
    ( /\ amount = <<"2", "5", ".", "0", "0">>
      /\ currentNetwork \in ConfiguredNetworks
      /\ destinationNetwork \in ConfiguredNetworks
      /\ pc = "raised" ) => error \in CollaboratorErrors

(***************************************************************************)
(* Reading a decimal amount: the digits before and after the point.        *)
(***************************************************************************)
PointPos(s) ==
    IF \E i \in 1..Len(s) : s[i] = "."
    THEN CHOOSE i \in 1..Len(s) : s[i] = "." /\ \A j \in 1..(i - 1) : s[j] # "."
    ELSE 0

IntegerPart(s) == IF PointPos(s) = 0 THEN s ELSE SubSeq(s, 1, PointPos(s) - 1)

FractionPart(s) == IF PointPos(s) = 0 THEN <<>> ELSE SubSeq(s, PointPos(s) + 1, Len(s))

IsDecimalAmount(s) ==
    /\ AllDigits(IntegerPart(s))
    /\ PointPos(s) # 0 => AllDigits(FractionPart(s))

\* the fraction digits as millionths: the digits followed by zeros up to six
Millionths(f) ==
    DigitsToNat(f \o [i \in 1..(6 - Len(f)) |-> "0"])

\* the value of a decimal amount times 10^6
ExactBaseUnits(s) ==
    DigitsToNat(IntegerPart(s)) * 1000000 + Millionths(FractionPart(s))

\* C11: for every decimal amount with at most six fraction digits the
\* conversion to base units succeeds and gives exactly amount * 10^6, and
\* dividing the base units by 10^6 gives the amount back (whole part and
\* millionths).
C11_ConversionExactAndReversible ==
    ( /\ pc # "idle"
      /\ IsDecimalAmount(amount)
      /\ Len(FractionPart(amount)) <= 6 ) =>
        /\ thrown # SyntaxErrorMsg
        /\ usdcAmount = ExactBaseUnits(amount)
        /\ usdcAmount \div 1000000 = DigitsToNat(IntegerPart(amount))
        /\ usdcAmount % 1000000 = Millionths(FractionPart(amount))

(***************************************************************************)
(* The pure functions of the transfer, applied to inputs of their own:     *)
(* the max fee of a base-unit amount (part_003:249, 266) and the padding   *)
(* of the mint recipient (part_003:247).                                   *)
(***************************************************************************)
BaseUnitAmounts == 0..MaxBaseUnits

AddressChars == {"0", "1", "a", "f"}

Addresses == { Address(c1, c2, c3) : c1 \in AddressChars, c2 \in AddressChars, c3 \in AddressChars }

PureInputs ==
    { [fn |-> "maxFee", usdcAmount |-> b] : b \in BaseUnitAmounts }
    \cup { [fn |-> "pad", a |-> x, b |-> y] : x \in Addresses, y \in Addresses }

PureInit ==
    /\ amount = <<"2", "5">>
    /\ currentNetwork = "ARC-TESTNET"
    /\ destinationNetwork = "BASE-SEPOLIA"
    /\ TransferAtRest
    /\ DepositAtRest
    /\ profile = NoCircleIds
    /\ RequestsAtRest
    /\ fnPc = "ready"
    /\ fnInput \in PureInputs
    /\ fnOutput = [fn |-> "none"]

\* part_003:249 const maxFee = usdcAmount / BigInt(5000); part_003:266 maxFee.toString()
ApplyMaxFee ==
    /\ fnPc = "ready"
    /\ fnInput.fn = "maxFee"
    /\ fnOutput' = [fn |-> "maxFee",
                    maxFee |-> MaxFeeOf(fnInput.usdcAmount),
                    param |-> BigIntToString(MaxFeeOf(fnInput.usdcAmount))]
    /\ fnPc' = "done"
    /\ UNCHANGED <<fnInput, beyondPure>>

\* part_003:247 const mintRecipientAddressInBytes32 = pad(destinationAddress)
ApplyPad ==
    /\ fnPc = "ready"
    /\ fnInput.fn = "pad"
    /\ fnOutput' = [fn |-> "pad",
                    pa |-> Pad(fnInput.a),
                    pb |-> Pad(fnInput.b),
                    ppa |-> Pad(Pad(fnInput.a))]
    /\ fnPc' = "done"
    /\ UNCHANGED <<fnInput, beyondPure>>

PureNext ==
    \/ ApplyMaxFee
    \/ ApplyPad

PureSpec == PureInit /\ [][PureNext]_vars

\* C12: the max fee of a base-unit amount b is floor(b / 5000), the one
\* natural number f with 5000 * f <= b < 5000 * (f + 1): 0 for 0, 0 for 4999,
\* 1 for 5000; the burn call is given its decimal digits.
C12_MaxFeeIsFloorOfFiveThousandth ==
    (fnPc = "done" /\ fnInput.fn = "maxFee") =>
        LET b == fnInput.usdcAmount
            f == fnOutput.maxFee
        IN  /\ f \in Nat
            /\ 5000 * f <= b
            /\ b < 5000 * (f + 1)
            /\ b = 0 => f = 0
            /\ b = 4999 => f = 0
            /\ b = 5000 => f = 1
            /\ AllDigits(fnOutput.param)
            /\ DigitsToNat(fnOutput.param) = f

C12_Witness ==
    /\ fnPc = "done"
    /\ fnInput.fn = "maxFee"
    /\ fnInput.usdcAmount = 4999
    /\ fnOutput.maxFee = 0

\* the address a contract reads from a 32-byte value: its last 20 bytes
AddressOfBytes32(w) == <<"0", "x">> \o SubSeq(w, Len(w) - 39, Len(w))

\* C13: padding gives a 32-byte value with zeros on the left; two addresses
\* with the same padding are the same address; padding a padded value
\* changes nothing; the address read back from pad(a) is a.
C13_PadInjectiveIdempotentRoundTrip ==
    (fnPc = "done" /\ fnInput.fn = "pad") =>
        /\ Len(fnOutput.pa) = 66
        /\ SubSeq(fnOutput.pa, 1, 26) = <<"0", "x">> \o [i \in 1..24 |-> "0"]
        /\ fnOutput.pa = fnOutput.pb => fnInput.a = fnInput.b
        /\ fnOutput.ppa = fnOutput.pa
        /\ AddressOfBytes32(fnOutput.pa) = fnInput.a

C13_Witness ==
    /\ fnPc = "done"
    /\ fnInput.fn = "pad"
    /\ fnInput.a # fnInput.b
    /\ fnOutput.pa # fnOutput.pb
    /\ fnInput.a[3] = "0"

\* C14: a transfer whose source or destination network has no entry in the
\* registry fails before any transaction is submitted to the wallet gateway.
C14_MissingConfigFailsBeforeAnySubmission ==
    (currentNetwork \notin ConfiguredNetworks \/ destinationNetwork \notin ConfiguredNetworks) =>
        /\ gatewayCalls = <<>>
        /\ Submissions = <<>>
        /\ \A i \in TxIds : txState[i] = "NONE"

\* the errors a transaction in state FAILED gives, by step
FailedStateErrors == {ApproveFailedMsg, BurnFailedMsg, ReceiveFailedMsg}

LastEvent == events[Len(events)]

C16_FailedStateErrorsNameTheStep ==
    /\ Cardinality(FailedStateErrors) = 3
    /\ \A w \in {"approve", "burn", "receive"} :
         (events # <<>> /\ LastEvent.type = "poll_failed" /\ LastEvent.what = w) =>
             /\ pc = "raised"
             /\ error = (CASE w = "approve" -> "Approve transaction failed"
                           [] w = "burn" -> "Burn transaction failed"
                           [] w = "receive" -> "Receive transaction failed")
    /\ error = ApproveFailedMsg => (LastEvent = Ev("poll_failed", "approve", approveTxId))
    /\ error = BurnFailedMsg => (LastEvent = Ev("poll_failed", "burn", burnTxId))
    /\ error = ReceiveFailedMsg => (LastEvent = Ev("poll_failed", "receive", receiveTxId))

C16_Witness ==
    /\ pc = "raised"
    /\ error = ReceiveFailedMsg
    /\ Has("poll_confirmed", "approve")
    /\ Has("poll_confirmed", "burn")

\* C17: when the attestation wait ends with the timeout or with an error
\* other than not-found, the transfer aborts with that error and no receive
\* transaction is submitted; a receive is submitted only after a complete
\* attestation; the timeout error differs from the failed-transaction
\* errors and from the attestation service's errors.
C17_AttestationFailureAbortsBeforeReceive ==
    /\ (thrown = TimeoutMsg \/ thrown \in AttestationErrors) =>
         /\ pc = "raised"
         /\ error = thrown
         /\ attestation = NoAttestation
         /\ receiveTxId = 0
         /\ ~Has("submit", "receive")
         /\ \A i \in 1..Len(gatewayCalls) :
              gatewayCalls[i].fn # "receiveMessage(bytes,bytes)"
    /\ Has("submit", "receive") =>
         /\ lastResp.kind = "complete"
         /\ attestation = AttestationOf(lastResp)
    /\ error = TimeoutMsg =>
         /\ attReqs = maxAttempts
         /\ lastResp.kind \in {"http404", "incomplete", "empty"}
    /\ TimeoutMsg \notin FailedStateErrors \cup AttestationErrors

C17_Witness ==
    /\ pc = "raised"
    /\ error = TimeoutMsg
    /\ Has("poll_confirmed", "burn")
    /\ ~Has("submit", "receive")

(***************************************************************************)
(* The deposit: TelegramService._executeDeposit (telegramService.js:325)   *)
(* and CircleBusinessService.executeMockDepositFlow with its two helpers   *)
(* (README.md:205-333), for one user who deposits several times, one       *)
(* deposit after the other, and who has both wallets.  The collaborators   *)
(* are the Circle business API (businessApi), the users table              *)
(* (supabaseService), the notifier (the awaited bot.sendMessage calls; the *)
(* calls that are not awaited cannot stop the flow) and the transfer       *)
(* orchestrator passed in as circleService, whose call returns a record or *)
(* throws one of the errors crossChainTransfer can throw.                  *)
(***************************************************************************)
ProviderErrorMsg == "Circle business API request rejected"
StoreErrorMsg == "users table request rejected"
\* README.md:310: the message points to the Circle faucet and ends with
\* destinationWallet.address
FallbackMsg == "It looks like your wallet is not enabled yet to be used for deposits. Alternatively, you can get USDC from the Circle faucet, your wallet address in Arc-Testnet is:"

FallbackError(address) == [message |-> FallbackMsg, names |-> address]

\* the wallets _executeDeposit passes to the flow (telegramService.js:334-346)
sourceWallet == [walletid |-> walletId, address |-> Address("1", "0", "a")]
destinationWallet == [walletid |-> destinationWalletId, address |-> destinationAddress]

\* an argument of a call, with what the caller means by it
Arg(is, value) == [is |-> is, value |-> value]

\* part_003:180-187: the parameters of crossChainTransfer take the
\* arguments of a call by position
BindTransferParams(args) ==
    [walletId |-> args[1],
     destinationNetwork |-> args[2],
     destinationAddress |-> args[3],
     amount |-> args[4],
     chatId |-> args[5],
     destinationWalletId |-> args[6]]

\* README.md:320-328: the arguments of the bridge call
BridgeArgs ==
    << Arg("walletId", sourceWallet.walletid),
       Arg("network", "BASE-SEPOLIA"),
       Arg("network", "ARC-TESTNET"),
       Arg("address", destinationWallet.address),
       Arg("amount", amount),
       Arg("chatId", chatId),
       Arg("walletId", destinationWallet.walletid) >>

\* ids already stored in the users row when the first deposit begins
StoredBankId == 101
StoredRecipientId == 102

\* response.data.data.id of a creation: the provider numbers what it creates
ProviderIds == 1..(2 * MaxDeposits)

Profiles ==
    { [circle_bank_account_id |-> b, circle_recipient_address_id |-> r] :
        b \in {0, StoredBankId}, r \in {0, StoredRecipientId} }

\* what crossChainTransfer can return to the flow, and what it can throw
BridgeRecords == { [approveTx |-> 1, burnTx |-> 2, receiveTx |-> 3] }

BridgeErrors ==
    {SyntaxErrorMsg, TypeErrorMsg, ReferenceErrorMsg, GatewayErrorMsg, NotifierErrorMsg,
     ApproveFailedMsg, BurnFailedMsg, ReceiveFailedMsg, TimeoutMsg} \cup AttestationErrors

ProviderCall(op, id, ok) == [op |-> op, id |-> id, ok |-> ok]

HasCall(op) == \E i \in 1..Len(providerCalls) : providerCalls[i].op = op

CallCount(op) == Cardinality({ i \in 1..Len(providerCalls) : providerCalls[i].op = op })

DepositInit ==
    /\ amount = <<"2", "5">>
    /\ currentNetwork = "BASE-SEPOLIA"
    /\ destinationNetwork = "ARC-TESTNET"
    /\ TransferAtRest
    /\ PureAtRest
    /\ DepositAtRest
    /\ profile \in Profiles
    /\ RequestsAtRest

\* supabaseService.findUserByTgId(userId): the users row as it is stored now
FindUserByTgId(row) == row

\* supabaseService.js:176-190: only the ids given are written
UpdateUserCircleIds_Overwrite(row, bank_account_id, recipient_address_id) ==
    [circle_bank_account_id |-> bank_account_id,
     circle_recipient_address_id |-> recipient_address_id]

\* supabaseService.js:177-179: updateData holds a column only for an id
\* that was given (a truthy one)
UpdateData_BothColumns(bank_account_id, recipient_address_id) ==
    [circle_bank_account_id |-> bank_account_id,
     circle_recipient_address_id |-> recipient_address_id]

UpdateData(bank_account_id, recipient_address_id) ==
    LET given == (IF bank_account_id # 0 THEN {"circle_bank_account_id"} ELSE {})
                 \cup (IF recipient_address_id # 0
                       THEN {"circle_recipient_address_id"} ELSE {})
    IN  [c \in given |-> IF c = "circle_bank_account_id" THEN bank_account_id
                         ELSE recipient_address_id]

\* supabaseService.js:181-184: .update(updateData).eq('tg_id', tg_id) sets
\* the columns of updateData in the user's row and no other
UpdateUserCircleIds(row, bank_account_id, recipient_address_id) ==
    LET updateData == UpdateData(bank_account_id, recipient_address_id)
    IN  [c \in DOMAIN row |-> IF c \in DOMAIN updateData THEN updateData[c] ELSE row[c]]

\* README.md:206 if (user.circle_bank_account_id)
HasBankAccount_Never(u) == FALSE

HasBankAccount(u) == u.circle_bank_account_id # 0

\* README.md:247 if (user.circle_recipient_address_id)
HasRecipientAddress(u) == u.circle_recipient_address_id # 0

\* a throw inside executeMockDepositFlow, or inside the try of
\* _executeDeposit before it: it ends in the catch of _executeDeposit
\* (telegramService.js:366)
DRaise(e) ==
    /\ dpc' = "raised"
    /\ dError' = e
    /\ dResult' = dResult

\* telegramService.js:327-359 and README.md:280: the first message, the
\* lookup of the user and the call of executeMockDepositFlow
StartDeposit ==
    /\ dpc = "idle"
    /\ deposits < MaxDeposits
    /\ deposits' = deposits + 1
    /\ providerCalls' = <<>>
    /\ bridgeCalls' = <<>>
    /\ profileWrites' = <<>>
    /\ \/ /\ \E e \in {NotifierErrorMsg, StoreErrorMsg} : DRaise(Err(e))
          /\ UNCHANGED user
       \/ /\ user' = FindUserByTgId(profile)
          /\ dpc' = "bank"
          /\ UNCHANGED <<dError, dResult>>
    /\ UNCHANGED <<bankAccountId, recipientAddressId, bridgeResult, bankCreated,
                   recipientCreated, bankPersisted, recipientPersisted, profile,
                   nextProviderId, beyondDeposit>>

\* README.md:206-210: the stored bank account id is returned
BankReuse ==
    /\ dpc = "bank"
    /\ HasBankAccount(user)
    /\ \/ /\ DRaise(Err(NotifierErrorMsg))
          /\ UNCHANGED bankAccountId
       \/ /\ bankAccountId' = user.circle_bank_account_id
          /\ dpc' = "instructions"
          /\ UNCHANGED <<dError, dResult>>
    /\ UNCHANGED <<user, recipientAddressId, bridgeResult, depositHistory, profile,
                   nextProviderId, beyondDeposit>>

\* README.md:212-234: POST /businessAccount/banks/wires
BankCreate ==
    /\ dpc = "bank"
    /\ ~HasBankAccount(user)
    /\ \/ /\ providerCalls' = Append(providerCalls, ProviderCall("createBankAccount", 0, FALSE))
          /\ DRaise(Err(ProviderErrorMsg))
          /\ UNCHANGED <<bankAccountId, bankCreated, nextProviderId>>
       \/ /\ nextProviderId \in ProviderIds
          /\ providerCalls' = Append(providerCalls, ProviderCall("createBankAccount", 0, TRUE))
          /\ bankAccountId' = nextProviderId
          /\ nextProviderId' = nextProviderId + 1
          /\ bankCreated' = bankCreated + 1
          /\ dpc' = "bank_persist"
          /\ UNCHANGED <<dError, dResult>>
    /\ UNCHANGED <<user, recipientAddressId, bridgeResult, profileWrites, deposits, bridgeCalls,
                   recipientCreated, bankPersisted, recipientPersisted, profile,
                   beyondDeposit>>

\* README.md:235: updateUserCircleIds(user.tg_id, { bank_account_id })
BankPersist ==
    /\ dpc = "bank_persist"
    /\ profileWrites' = Append(profileWrites,
                               [bank_account_id |-> bankAccountId, recipient_address_id |-> 0])
    /\ \/ /\ DRaise(Err(StoreErrorMsg))
          /\ UNCHANGED <<profile, bankPersisted>>
       \/ /\ profile' = UpdateUserCircleIds(profile, bankAccountId, 0)
          /\ bankPersisted' = bankPersisted + 1
          /\ dpc' = "bank_added"
          /\ UNCHANGED <<dError, dResult>>
    /\ UNCHANGED <<user, bankAccountId, recipientAddressId, bridgeResult, providerCalls,
                   deposits, bridgeCalls, bankCreated, recipientCreated, recipientPersisted,
                   nextProviderId, beyondDeposit>>

\* README.md:236-237: the awaited message, then the new id is returned
BankAdded ==
    /\ dpc = "bank_added"
    /\ \/ DRaise(Err(NotifierErrorMsg))
       \/ /\ dpc' = "instructions"
          /\ UNCHANGED <<dError, dResult>>
    /\ UNCHANGED <<user, bankAccountId, recipientAddressId, bridgeResult, depositHistory,
                   profile, nextProviderId, beyondDeposit>>

\* README.md:282-283: GET /businessAccount/banks/wires/{bankAccountId}/instructions
FetchInstructions_IgnoresFailure ==
    /\ dpc = "instructions"
    /\ \E ok \in BOOLEAN :
         providerCalls' = Append(providerCalls,
                                 ProviderCall("getWireInstructions", bankAccountId, ok))
    /\ dpc' = "mock_wire"
    /\ UNCHANGED <<dError, dResult>>
    /\ UNCHANGED <<user, bankAccountId, recipientAddressId, bridgeResult, profileWrites,
                   deposits, bridgeCalls, bankCreated, recipientCreated, bankPersisted,
                   recipientPersisted, profile, nextProviderId, beyondDeposit>>

FetchInstructions ==
    /\ dpc = "instructions"
    /\ \/ /\ providerCalls' = Append(providerCalls, ProviderCall("getWireInstructions", bankAccountId, FALSE))
          /\ DRaise(Err(ProviderErrorMsg))
       \/ /\ providerCalls' = Append(providerCalls, ProviderCall("getWireInstructions", bankAccountId, TRUE))
          /\ dpc' = "mock_wire"
          /\ UNCHANGED <<dError, dResult>>
    /\ UNCHANGED <<user, bankAccountId, recipientAddressId, bridgeResult, profileWrites,
                   deposits, bridgeCalls, bankCreated, recipientCreated, bankPersisted,
                   recipientPersisted, profile, nextProviderId, beyondDeposit>>

\* README.md:290-293: POST /mocks/payments/wire
MockWire_SkipsRecipient ==
    /\ dpc = "mock_wire"
    /\ \/ /\ providerCalls' = Append(providerCalls, ProviderCall("mockWire", bankAccountId, FALSE))
          /\ DRaise(Err(ProviderErrorMsg))
       \/ /\ providerCalls' = Append(providerCalls, ProviderCall("mockWire", bankAccountId, TRUE))
          /\ dpc' = "provider_transfer"
          /\ UNCHANGED <<dError, dResult>>
    /\ UNCHANGED <<user, bankAccountId, recipientAddressId, bridgeResult, profileWrites,
                   deposits, bridgeCalls, bankCreated, recipientCreated, bankPersisted,
                   recipientPersisted, profile, nextProviderId, beyondDeposit>>

MockWire ==
    /\ dpc = "mock_wire"
    /\ \/ /\ providerCalls' = Append(providerCalls, ProviderCall("mockWire", bankAccountId, FALSE))
          /\ DRaise(Err(ProviderErrorMsg))
       \/ /\ providerCalls' = Append(providerCalls, ProviderCall("mockWire", bankAccountId, TRUE))
          /\ dpc' = "recipient"
          /\ UNCHANGED <<dError, dResult>>
    /\ UNCHANGED <<user, bankAccountId, recipientAddressId, bridgeResult, profileWrites,
                   deposits, bridgeCalls, bankCreated, recipientCreated, bankPersisted,
                   recipientPersisted, profile, nextProviderId, beyondDeposit>>

\* README.md:247-250: the stored recipient address id is returned
RecipientReuse_ReturnsBank ==
    /\ dpc = "recipient"
    /\ HasRecipientAddress(user)
    /\ recipientAddressId' = user.circle_bank_account_id
    /\ dpc' = "provider_transfer"
    /\ UNCHANGED <<dError, dResult, user, bankAccountId, bridgeResult, depositHistory,
                   profile, nextProviderId, beyondDeposit>>

RecipientReuse ==
    /\ dpc = "recipient"
    /\ HasRecipientAddress(user)
    /\ recipientAddressId' = user.circle_recipient_address_id
    /\ dpc' = "provider_transfer"
    /\ UNCHANGED <<dError, dResult, user, bankAccountId, bridgeResult, depositHistory,
                   profile, nextProviderId, beyondDeposit>>

\* README.md:254-262: POST /businessAccount/wallets/addresses/recipient
RecipientCreate ==
    /\ dpc = "recipient"
    /\ ~HasRecipientAddress(user)
    /\ \/ /\ providerCalls' = Append(providerCalls, ProviderCall("createRecipientAddress", 0, FALSE))
          /\ DRaise(Err(ProviderErrorMsg))
          /\ UNCHANGED <<recipientAddressId, recipientCreated, nextProviderId>>
       \/ /\ nextProviderId \in ProviderIds
          /\ providerCalls' = Append(providerCalls, ProviderCall("createRecipientAddress", 0, TRUE))
          /\ recipientAddressId' = nextProviderId
          /\ nextProviderId' = nextProviderId + 1
          /\ recipientCreated' = recipientCreated + 1
          /\ dpc' = "recipient_persist"
          /\ UNCHANGED <<dError, dResult>>
    /\ UNCHANGED <<user, bankAccountId, bridgeResult, profileWrites, deposits, bridgeCalls,
                   bankCreated, bankPersisted, recipientPersisted, profile,
                   beyondDeposit>>

\* README.md:264-265: updateUserCircleIds(user.tg_id, { recipient_address_id })
RecipientPersist ==
    /\ dpc = "recipient_persist"
    /\ profileWrites' = Append(profileWrites,
                               [bank_account_id |-> 0, recipient_address_id |-> recipientAddressId])
    /\ \/ /\ DRaise(Err(StoreErrorMsg))
          /\ UNCHANGED <<profile, recipientPersisted>>
       \/ /\ profile' = UpdateUserCircleIds(profile, 0, recipientAddressId)
          /\ recipientPersisted' = recipientPersisted + 1
          /\ dpc' = "provider_transfer"
          /\ UNCHANGED <<dError, dResult>>
    /\ UNCHANGED <<user, bankAccountId, recipientAddressId, bridgeResult, providerCalls,
                   deposits, bridgeCalls, bankCreated, recipientCreated, bankPersisted,
                   nextProviderId, beyondDeposit>>

\* README.md:301-311: POST /businessAccount/transfers; any failure is
\* replaced by the fallback message
ProviderTransfer_Swallow ==
    /\ dpc = "provider_transfer"
    /\ \E ok \in BOOLEAN :
         providerCalls' = Append(providerCalls, ProviderCall("createTransfer", recipientAddressId, ok))
    /\ dpc' = "arrived"
    /\ UNCHANGED <<dError, dResult>>
    /\ UNCHANGED <<user, bankAccountId, recipientAddressId, bridgeResult, profileWrites,
                   deposits, bridgeCalls, bankCreated, recipientCreated, bankPersisted,
                   recipientPersisted, profile, nextProviderId, beyondDeposit>>

ProviderTransfer ==
    /\ dpc = "provider_transfer"
    /\ \/ /\ providerCalls' = Append(providerCalls, ProviderCall("createTransfer", recipientAddressId, FALSE))
          /\ DRaise(FallbackError(destinationWallet.address))
       \/ /\ providerCalls' = Append(providerCalls, ProviderCall("createTransfer", recipientAddressId, TRUE))
          /\ dpc' = "arrived"
          /\ UNCHANGED <<dError, dResult>>
    /\ UNCHANGED <<user, bankAccountId, recipientAddressId, bridgeResult, profileWrites,
                   deposits, bridgeCalls, bankCreated, recipientCreated, bankPersisted,
                   recipientPersisted, profile, nextProviderId, beyondDeposit>>

\* README.md:314-317: the delay and the two awaited messages
Arrived ==
    /\ dpc = "arrived"
    /\ \/ DRaise(Err(NotifierErrorMsg))
       \/ /\ dpc' = "bridge"
          /\ UNCHANGED <<dError, dResult>>
    /\ UNCHANGED <<user, bankAccountId, recipientAddressId, bridgeResult, depositHistory,
                   profile, nextProviderId, beyondDeposit>>

\* README.md:320-328: await circleService.crossChainTransfer(...)
BridgeCall ==
    /\ dpc = "bridge"
    /\ bridgeCalls' = Append(bridgeCalls, BindTransferParams(BridgeArgs))
    /\ \/ /\ \E e \in BridgeErrors : DRaise(Err(e))
          /\ UNCHANGED bridgeResult
       \/ /\ \E r \in BridgeRecords : bridgeResult' = r
          /\ dpc' = "all_done"
          /\ UNCHANGED <<dError, dResult>>
    /\ UNCHANGED <<user, bankAccountId, recipientAddressId, providerCalls, profileWrites,
                   deposits, bankCreated, recipientCreated, bankPersisted,
                   recipientPersisted, profile, nextProviderId, beyondDeposit>>

\* README.md:330-332: the last awaited message and return bridgeResult
AllDone ==
    /\ dpc = "all_done"
    /\ \/ DRaise(Err(NotifierErrorMsg))
       \/ /\ dResult' = bridgeResult
          /\ dpc' = "returned"
          /\ UNCHANGED dError
    /\ UNCHANGED <<user, bankAccountId, recipientAddressId, bridgeResult, depositHistory,
                   profile, nextProviderId, beyondDeposit>>

\* telegramService.js:361-370: _executeDeposit reports the result or the
\* error in the chat and ends; its locals are gone
EndDeposit ==
    /\ dpc \in {"returned", "raised"}
    /\ dpc' = "idle"
    /\ dError' = Err(NoError)
    /\ dResult' = NoResult
    /\ user' = NoCircleIds
    /\ bankAccountId' = 0
    /\ recipientAddressId' = 0
    /\ bridgeResult' = NoResult
    /\ UNCHANGED <<depositHistory, profile, nextProviderId, beyondDeposit>>

DepositNext ==
    \/ StartDeposit
    \/ BankReuse
    \/ BankCreate
    \/ BankPersist
    \/ BankAdded
    \/ FetchInstructions
    \/ MockWire
    \/ RecipientReuse
    \/ RecipientCreate
    \/ RecipientPersist
    \/ ProviderTransfer
    \/ Arrived
    \/ BridgeCall
    \/ AllDone
    \/ EndDeposit

DepositSpec == DepositInit /\ [][DepositNext]_vars

\* the flow has resolved the recipient address (README.md:296 is behind it)
PassedRecipientStep == dpc = "provider_transfer" \/ HasCall("createTransfer")

\* C18: a deposit of a user whose profile holds neither id issues at most
\* one bank-account creation and one recipient-address creation, and once
\* both ids are resolved it has issued exactly one of each, has written each
\* returned id to the profile exactly once, and the profile holds both.
C18_NeitherIdCreatesEachOnce ==
    (dpc # "idle" /\ user = NoCircleIds) =>
        /\ CallCount("createBankAccount") <= 1
        /\ CallCount("createRecipientAddress") <= 1
        /\ Len(profileWrites) <= 2
        /\ PassedRecipientStep =>
             /\ CallCount("createBankAccount") = 1
             /\ CallCount("createRecipientAddress") = 1
             /\ bankAccountId \in ProviderIds
             /\ recipientAddressId \in ProviderIds
             /\ bankAccountId # recipientAddressId
             /\ profileWrites =
                  << [bank_account_id |-> bankAccountId, recipient_address_id |-> 0],
                     [bank_account_id |-> 0, recipient_address_id |-> recipientAddressId] >>
             /\ profile = [circle_bank_account_id |-> bankAccountId,
                           circle_recipient_address_id |-> recipientAddressId]

C18_Witness ==
    /\ dpc = "returned"
    /\ user = NoCircleIds
    /\ CallCount("createBankAccount") = 1
    /\ CallCount("createRecipientAddress") = 1
    /\ Len(profileWrites) = 2

\* C19: a deposit of a user whose profile holds both ids issues no creation
\* call and no profile write; it fetches the wire instructions of the stored
\* bank account id and addresses the provider transfer to the stored
\* recipient address id.
C19_BothIdsAreReused ==
    ( /\ dpc # "idle"
      /\ user.circle_bank_account_id # 0
      /\ user.circle_recipient_address_id # 0 ) =>
        /\ ~HasCall("createBankAccount")
        /\ ~HasCall("createRecipientAddress")
        /\ profileWrites = <<>>
        /\ profile = user
        /\ \A i \in 1..Len(providerCalls) :
             /\ providerCalls[i].op = "getWireInstructions" =>
                  providerCalls[i].id = user.circle_bank_account_id
             /\ providerCalls[i].op = "createTransfer" =>
                  providerCalls[i].id = user.circle_recipient_address_id
        /\ dpc = "returned" =>
             /\ Len(providerCalls) = 3
             /\ providerCalls[1].op = "getWireInstructions"
             /\ providerCalls[2].op = "mockWire"
             /\ providerCalls[3].op = "createTransfer"

C19_Witness ==
    /\ dpc = "returned"
    /\ user.circle_bank_account_id = StoredBankId
    /\ user.circle_recipient_address_id = StoredRecipientId
    /\ HasCall("getWireInstructions")
    /\ HasCall("createTransfer")

\* C20 as stated: over any sequence of deposits of one user, one after the
\* other, at most one bank account and at most one recipient address are
\* ever created.
C20_AtMostOneCreationEver ==
    /\ bankCreated <= 1
    /\ recipientCreated <= 1

\* C20 amended: at most one id of each kind is ever written to the profile;
\* a written id stays stored, and a deposit that read a stored id issues no
\* creation for it and uses that id.
C20_PersistedIdIsReused ==
    /\ bankPersisted <= 1
    /\ recipientPersisted <= 1
    /\ bankPersisted = 1 => profile.circle_bank_account_id \in ProviderIds
    /\ recipientPersisted = 1 => profile.circle_recipient_address_id \in ProviderIds
    /\ (dpc # "idle" /\ user.circle_bank_account_id # 0) =>
         /\ ~HasCall("createBankAccount")
         /\ bankAccountId \in {0, user.circle_bank_account_id}
         /\ profile.circle_bank_account_id = user.circle_bank_account_id
    /\ (dpc # "idle" /\ user.circle_recipient_address_id # 0) =>
         /\ ~HasCall("createRecipientAddress")
         /\ recipientAddressId \in {0, user.circle_recipient_address_id}
         /\ profile.circle_recipient_address_id = user.circle_recipient_address_id

C20_Witness ==
    /\ deposits = 2
    /\ dpc = "returned"
    /\ bankPersisted = 1
    /\ recipientPersisted = 1
    /\ user.circle_bank_account_id \in ProviderIds
    /\ user.circle_recipient_address_id \in ProviderIds
    /\ ~HasCall("createBankAccount")
    /\ ~HasCall("createRecipientAddress")

\* C21: when the provider transfer request of a deposit fails, the deposit
\* ends with the fallback error, which points to the faucet and holds the
\* destination wallet's address, and crossChainTransfer is not called in
\* that deposit.
C21_FailedProviderTransferAbortsWithFallback ==
    \A i \in 1..Len(providerCalls) :
        (providerCalls[i].op = "createTransfer" /\ ~providerCalls[i].ok) =>
            /\ i = Len(providerCalls)
            /\ dpc \in {"raised", "idle"}
            /\ dpc = "raised" => dError = FallbackError(destinationWallet.address)
            /\ bridgeCalls = <<>>

C21_Witness ==
    /\ dpc = "raised"
    /\ dError.message = FallbackMsg
    /\ dError.names = destinationAddress
    /\ Len(providerCalls) >= 3
    /\ ~providerCalls[Len(providerCalls)].ok

\* C22 as stated: a deposit whose provider steps all succeed calls
\* crossChainTransfer once; the call's source wallet is the source wallet's
\* id, its destination address and destination wallet are the destination
\* wallet's address and id, its amount is the deposit's amount; the deposit
\* returns the record the call returned.
C22_BridgeInvokedOnceWithDepositArguments ==
    /\ Len(bridgeCalls) <= 1
    /\ dpc \in {"all_done", "returned"} => Len(bridgeCalls) = 1
    /\ \A i \in 1..Len(bridgeCalls) :
        /\ bridgeCalls[i].walletId.is = "walletId"
        /\ bridgeCalls[i].walletId.value = sourceWallet.walletid
        /\ bridgeCalls[i].destinationAddress.is = "address"
        /\ bridgeCalls[i].destinationAddress.value = destinationWallet.address
        /\ bridgeCalls[i].destinationWalletId.is = "walletId"
        /\ bridgeCalls[i].destinationWalletId.value = destinationWallet.walletid
        /\ bridgeCalls[i].amount.is = "amount"
        /\ bridgeCalls[i].amount.value = amount
    /\ dpc = "returned" => dResult = bridgeResult

\* the provider calls of a deposit of user u, in the order of the flow
ExpectedOps(u) ==
    (IF HasBankAccount(u) THEN <<>> ELSE <<"createBankAccount">>)
    \o <<"getWireInstructions", "mockWire">>
    \o (IF HasRecipientAddress(u) THEN <<>> ELSE <<"createRecipientAddress">>)
    \o <<"createTransfer">>

\* C23: the provider calls of a running deposit are a prefix of bank
\* account creation (when none is stored), wire instructions, mock wire,
\* recipient address creation (when none is stored), provider transfer;
\* every call before the last one succeeded; the provider transfer is made
\* with the resolved recipient address; crossChainTransfer is called only
\* after the whole sequence succeeded.
C23_ProviderStepsInFixedOrder ==
    dpc # "idle" =>
        /\ Len(providerCalls) <= Len(ExpectedOps(user))
        /\ \A i \in 1..Len(providerCalls) :
            /\ providerCalls[i].op = ExpectedOps(user)[i]
            /\ i < Len(providerCalls) => providerCalls[i].ok
            /\ providerCalls[i].op = "createTransfer" =>
                 /\ providerCalls[i].id # 0
                 /\ providerCalls[i].id = recipientAddressId
                 /\ HasRecipientAddress(user) =>
                      providerCalls[i].id = user.circle_recipient_address_id
        /\ bridgeCalls # <<>> =>
             /\ Len(providerCalls) = Len(ExpectedOps(user))
             /\ providerCalls[Len(providerCalls)].ok

C23_Witness ==
    /\ dpc = "returned"
    /\ Len(bridgeCalls) = 1
    /\ Len(providerCalls) = 5
    /\ providerCalls[4].op = "createRecipientAddress"
    /\ providerCalls[5].op = "createTransfer"

(***************************************************************************)
(* Handlers running at the same time.  Every await of a handler is a point *)
(* where another handler can run; the handlers share networkService's      *)
(* current network, the wallets table, the users table and the gateway.    *)
(***************************************************************************)
\* the user whose commands run, and another user of the bot
tgId == 1
otherTgId == 2

\* README.md:154-161: a row of the wallets table
WalletRow(tg_id, walletid, address, net) ==
    [tg_id |-> tg_id, walletid |-> walletid, walletaddress |-> address, network |-> net]

\* the address of the gateway wallet with a given id
AddressOf(id) == 100 + id

\* the wallets tables a run starts from: the user has no wallet, a wallet on
\* ARC-TESTNET only, or one on each network; the other user has one
InitialStores ==
    { << WalletRow(otherTgId, 21, AddressOf(21), "ARC-TESTNET") >>,
      << WalletRow(tgId, 11, AddressOf(11), "ARC-TESTNET"),
         WalletRow(otherTgId, 21, AddressOf(21), "ARC-TESTNET") >>,
      << WalletRow(tgId, 11, AddressOf(11), "ARC-TESTNET"),
         WalletRow(tgId, 12, AddressOf(12), "BASE-SEPOLIA"),
         WalletRow(otherTgId, 21, AddressOf(21), "ARC-TESTNET") >> }

\* the rows of a user on a network
RowsOf(tg_id, net) ==
    { i \in 1..Len(wallets) : wallets[i].tg_id = tg_id /\ wallets[i].network = net }

\* supabaseService.js:98-118: .single() gives the row when exactly one row
\* matches; with no row or several rows it gives error PGRST116, which
\* getWallet ignores and answers null
GetWallet(tg_id, net) ==
    IF Cardinality(RowsOf(tg_id, net)) = 1
    THEN LET i == CHOOSE j \in RowsOf(tg_id, net) : TRUE
         IN [walletid |-> wallets[i].walletid, address |-> wallets[i].walletaddress]
    ELSE NoWallet

\* README.md:154-161: the columns of a wallets row are NOT NULL; a field
\* that is undefined is left out of the insert and the column is NULL
RowAccepted(row) ==
    /\ row.tg_id # Undefined
    /\ row.walletid # Undefined
    /\ row.walletaddress # Undefined

NotNullMsg == "null value in column walletid violates not-null constraint"
WalletStoreErrorMsg == "wallets table request rejected"
NoMainWalletMsg == "I couldn't find your main account wallet"
NullWriteMsg == "Cannot set properties of null (setting 'walletid')"

\* telegramService.js:237, 345, 346, 452: walletResponse.walletid; the
\* object createWallet returns has the fields walletId and walletData
ReadWalletid_AsReturned(walletResponse) == walletResponse.walletId

ReadWalletid(walletResponse) == Undefined

\* telegramService.js:450: walletResponse.walletId
ReadWalletId(walletResponse) == walletResponse.walletId

\* the handler in slot r ends with an error, which its catch reports
RqRaise(r, e) == rq' = [rq EXCEPT ![r].pc = "raised", ![r].err = e]

\* slots are taken in order
Free(r) ==
    /\ rq[r].pc = "idle"
    /\ \A q \in Reqs : q < r => rq[q].pc # "idle"

\* what the handlers' steps on wallets leave alone
beyondRequests == <<transferVars, pureVars, depositVars>>
beyondWallets == <<transferVars, pureVars, depositLocals, providerCalls, bridgeCalls, deposits>>

\* telegramService.js:212-231 handleStart: greets, finds or creates the
\* user, reads the current network and looks the wallet up
ReceiveStart(r) ==
    /\ Free(r)
    /\ rq' = [rq EXCEPT ![r].kind = "start",
                        ![r].tg_id = tgId,
                        ![r].reqNetwork = network,
                        ![r].label = network,
                        ![r].source = GetWallet(tgId, network),
                        ![r].pc = IF GetWallet(tgId, network) # NoWallet
                                  THEN "done" ELSE "create"]
    /\ UNCHANGED <<network, wallets, gwWallets, beyondRequests>>

\* telegramService.js:325-331 _executeDeposit: reads the user's profile
ReceiveDeposit(r) ==
    /\ Free(r)
    /\ rq' = [rq EXCEPT ![r].kind = "deposit",
                        ![r].tg_id = tgId,
                        ![r].row = FindUserByTgId(profile),
                        ![r].pc = "dest_lookup"]
    /\ UNCHANGED <<network, wallets, gwWallets, beyondRequests>>

\* telegramService.js:333-337
DepositDestLookup(r) ==
    /\ rq[r].kind = "deposit"
    /\ rq[r].pc = "dest_lookup"
    /\ IF GetWallet(rq[r].tg_id, "ARC-TESTNET") = NoWallet
       THEN RqRaise(r, NoMainWalletMsg)
       ELSE rq' = [rq EXCEPT ![r].target = GetWallet(rq[r].tg_id, "ARC-TESTNET"),
                             ![r].pc = "source_lookup"]
    /\ UNCHANGED <<network, wallets, gwWallets, beyondRequests>>

\* telegramService.js:340-342
DepositSourceLookup(r) ==
    /\ rq[r].kind = "deposit"
    /\ rq[r].pc = "source_lookup"
    /\ rq' = [rq EXCEPT ![r].source = GetWallet(rq[r].tg_id, "BASE-SEPOLIA"),
                        ![r].label = "BASE-SEPOLIA",
                        ![r].pc = IF GetWallet(rq[r].tg_id, "BASE-SEPOLIA") # NoWallet
                                  THEN "bank" ELSE "create"]
    /\ UNCHANGED <<network, wallets, gwWallets, beyondRequests>>

\* part_003:54-80 createWallet: takes no parameter; the wallet is created
\* on the network that is current when createWallet reads it (line 61)
CreateWallet(r) ==
    /\ rq[r].pc = "create"
    /\ \/ /\ RqRaise(r, GatewayErrorMsg)
          /\ UNCHANGED gwWallets
       \/ /\ gwWallets' = Append(gwWallets, [id |-> Len(gwWallets) + 1, blockchain |-> network])
          /\ rq' = [rq EXCEPT ![r].created = [walletId |-> Len(gwWallets) + 1,
                                              address |-> AddressOf(Len(gwWallets) + 1),
                                              blockchain |-> network],
                              ![r].pc = "save"]
    /\ UNCHANGED <<network, wallets, beyondRequests>>

\* the walletid a handler passes to saveWallet: handleCCTP reads
\* walletResponse.walletId (telegramService.js:450), handleStart and
\* _executeDeposit read walletResponse.walletid (237, 345)
SavedWalletId(kind, walletResponse) ==
    IF kind = "cctp" THEN ReadWalletId(walletResponse) ELSE ReadWalletid(walletResponse)

\* supabaseService.js:71-90 saveWallet: a plain insert; the handler goes on
\* after it (telegramService.js:239, 346-347, 452)
SaveWallet(r) ==
    /\ rq[r].pc = "save"
    /\ LET row == WalletRow(rq[r].tg_id, SavedWalletId(rq[r].kind, rq[r].created),
                            rq[r].created.address, rq[r].label)
       IN  \/ /\ ~RowAccepted(row)
              /\ rq' = [rq EXCEPT ![r].savedId = row.walletid,
                                  ![r].pc = "raised", ![r].err = NotNullMsg]
              /\ UNCHANGED wallets
           \/ /\ RowAccepted(row)
              /\ rq' = [rq EXCEPT ![r].savedId = row.walletid,
                                  ![r].pc = "raised", ![r].err = WalletStoreErrorMsg]
              /\ UNCHANGED wallets
           \/ /\ RowAccepted(row)
              /\ wallets' = Append(wallets, row)
              /\ rq' = [rq EXCEPT
                          ![r].savedId = row.walletid,
                          ![r].source = IF rq[r].kind = "deposit"
                                        THEN [walletid |-> ReadWalletid(rq[r].created),
                                              address |-> rq[r].created.address]
                                        ELSE @,
                          ![r].pc = CASE rq[r].kind = "start" -> "done"
                                      [] rq[r].kind = "deposit" -> "bank"
                                      [] OTHER -> "raised",
                          ![r].err = IF rq[r].kind = "cctp" THEN NullWriteMsg ELSE @]
    /\ UNCHANGED <<network, gwWallets, beyondRequests>>

\* README.md:205-238 findOrCreateBankAccount up to the provider's answer;
\* the `user` object is the one _executeDeposit read
FindOrCreateBank(r) ==
    /\ rq[r].kind = "deposit"
    /\ rq[r].pc = "bank"
    /\ \/ /\ HasBankAccount(rq[r].row)
          /\ rq' = [rq EXCEPT ![r].bankId = rq[r].row.circle_bank_account_id,
                              ![r].pc = "recipient"]
          /\ UNCHANGED <<nextProviderId, bankCreated>>
       \/ /\ ~HasBankAccount(rq[r].row)
          /\ RqRaise(r, ProviderErrorMsg)
          /\ UNCHANGED <<nextProviderId, bankCreated>>
       \/ /\ ~HasBankAccount(rq[r].row)
          /\ nextProviderId \in ProviderIds
          /\ rq' = [rq EXCEPT ![r].bankId = nextProviderId, ![r].pc = "bank_persist"]
          /\ nextProviderId' = nextProviderId + 1
          /\ bankCreated' = bankCreated + 1
    /\ UNCHANGED <<network, wallets, gwWallets, profile, profileWrites, recipientCreated,
                   bankPersisted, recipientPersisted, beyondWallets>>

\* README.md:235: the created id is written to the profile; the wire
\* instructions and the mock wire (README.md:284-292) follow
PersistBank_FirstWins(r) ==
    /\ rq[r].kind = "deposit"
    /\ rq[r].pc = "bank_persist"
    /\ profileWrites' = Append(profileWrites,
                               [bank_account_id |-> rq[r].bankId, recipient_address_id |-> 0])
    /\ \/ /\ RqRaise(r, StoreErrorMsg)
          /\ UNCHANGED <<profile, bankPersisted>>
       \/ /\ profile' = IF HasBankAccount(profile) THEN profile
                        ELSE UpdateUserCircleIds(profile, rq[r].bankId, 0)
          /\ bankPersisted' = bankPersisted + 1
          /\ rq' = [rq EXCEPT ![r].pc = "recipient"]
    /\ UNCHANGED <<network, wallets, gwWallets, nextProviderId, bankCreated, recipientCreated,
                   recipientPersisted, beyondWallets>>

PersistBank(r) ==
    /\ rq[r].kind = "deposit"
    /\ rq[r].pc = "bank_persist"
    /\ profileWrites' = Append(profileWrites,
                               [bank_account_id |-> rq[r].bankId, recipient_address_id |-> 0])
    /\ \/ /\ RqRaise(r, StoreErrorMsg)
          /\ UNCHANGED <<profile, bankPersisted>>
       \/ /\ profile' = UpdateUserCircleIds(profile, rq[r].bankId, 0)
          /\ bankPersisted' = bankPersisted + 1
          /\ rq' = [rq EXCEPT ![r].pc = "recipient"]
    /\ UNCHANGED <<network, wallets, gwWallets, nextProviderId, bankCreated, recipientCreated,
                   recipientPersisted, beyondWallets>>

\* README.md:246-266 findOrCreateRecipientAddress up to the provider's answer
FindOrCreateRecipient(r) ==
    /\ rq[r].kind = "deposit"
    /\ rq[r].pc = "recipient"
    /\ \/ /\ HasRecipientAddress(rq[r].row)
          /\ rq' = [rq EXCEPT ![r].recipientId = rq[r].row.circle_recipient_address_id,
                              ![r].pc = "done"]
          /\ UNCHANGED <<nextProviderId, recipientCreated>>
       \/ /\ ~HasRecipientAddress(rq[r].row)
          /\ RqRaise(r, ProviderErrorMsg)
          /\ UNCHANGED <<nextProviderId, recipientCreated>>
       \/ /\ ~HasRecipientAddress(rq[r].row)
          /\ nextProviderId \in ProviderIds
          /\ rq' = [rq EXCEPT ![r].recipientId = nextProviderId,
                              ![r].pc = "recipient_persist"]
          /\ nextProviderId' = nextProviderId + 1
          /\ recipientCreated' = recipientCreated + 1
    /\ UNCHANGED <<network, wallets, gwWallets, profile, profileWrites, bankCreated,
                   bankPersisted, recipientPersisted, beyondWallets>>

\* README.md:264: the created id is written to the profile; the
\* provider transfer and the bridge (README.md:301-332) follow
PersistRecipient(r) ==
    /\ rq[r].kind = "deposit"
    /\ rq[r].pc = "recipient_persist"
    /\ profileWrites' = Append(profileWrites,
                               [bank_account_id |-> 0, recipient_address_id |-> rq[r].recipientId])
    /\ \/ /\ RqRaise(r, StoreErrorMsg)
          /\ UNCHANGED <<profile, recipientPersisted>>
       \/ /\ profile' = UpdateUserCircleIds(profile, 0, rq[r].recipientId)
          /\ recipientPersisted' = recipientPersisted + 1
          /\ rq' = [rq EXCEPT ![r].pc = "done"]
    /\ UNCHANGED <<network, wallets, gwWallets, nextProviderId, bankCreated, recipientCreated,
                   bankPersisted, beyondWallets>>

\* supabaseService.js:434-450 handleNetwork: networkService.setNetwork
\* replaces the current network of the whole bot; an unknown name throws
\* and changes nothing
HandleNetwork ==
    /\ \E networkName \in ConfiguredNetworks \ {network} : network' = networkName
    /\ UNCHANGED <<wallets, gwWallets, rq, beyondRequests>>

\* commands /start and deposit of one user, and /network of anyone
OnboardInit ==
    /\ amount = <<"2", "5">>
    /\ currentNetwork = "BASE-SEPOLIA"
    /\ destinationNetwork = "ARC-TESTNET"
    /\ TransferAtRest
    /\ PureAtRest
    /\ DepositAtRest
    /\ profile \in Profiles
    /\ network \in ConfiguredNetworks
    /\ wallets \in InitialStores
    /\ gwWallets = <<>>
    /\ rq = [r \in Reqs |-> IdleRequest]

OnboardNext ==
    \/ \E r \in Reqs : ReceiveStart(r)
    \/ \E r \in Reqs : ReceiveDeposit(r)
    \/ \E r \in Reqs : DepositDestLookup(r)
    \/ \E r \in Reqs : DepositSourceLookup(r)
    \/ \E r \in Reqs : CreateWallet(r)
    \/ \E r \in Reqs : SaveWallet(r)
    \/ \E r \in Reqs : FindOrCreateBank(r)
    \/ \E r \in Reqs : PersistBank(r)
    \/ \E r \in Reqs : FindOrCreateRecipient(r)
    \/ \E r \in Reqs : PersistRecipient(r)
    \/ HandleNetwork

OnboardSpec == OnboardInit /\ [][OnboardNext]_vars


\* telegramService.js:459-467: the arguments of handleCCTP's call
CCTPArgs(r) ==
    << Arg("walletId", rq[r].source.walletid),
       Arg("network", "ARC-TESTNET"),
       Arg("network", rq[r].dest),
       Arg("address", rq[r].target.address),
       Arg("amount", amount),
       Arg("chatId", chatId),
       Arg("walletId", rq[r].target.walletid) >>

\* telegramService.js:390-424 handleCCTP: reads the current network and
\* looks the user's wallet on it up; without one it answers and returns
ReceiveCCTP(r) ==
    /\ Free(r)
    /\ \E d \in ConfiguredNetworks :
         rq' = [rq EXCEPT ![r].kind = "cctp",
                          ![r].tg_id = tgId,
                          ![r].reqNetwork = network,
                          ![r].dest = d,
                          ![r].source = GetWallet(tgId, network),
                          ![r].pc = IF GetWallet(tgId, network) # NoWallet
                                    THEN "dest_lookup" ELSE "done"]
    /\ UNCHANGED <<network, wallets, gwWallets, beyondRequests>>

\* telegramService.js:440-444
CCTPDestLookup(r) ==
    /\ rq[r].kind = "cctp"
    /\ rq[r].pc = "dest_lookup"
    /\ rq' = [rq EXCEPT ![r].target = GetWallet(rq[r].tg_id, rq[r].dest),
                        ![r].label = rq[r].dest,
                        ![r].pc = IF GetWallet(rq[r].tg_id, rq[r].dest) # NoWallet
                                  THEN "call" ELSE "create"]
    /\ UNCHANGED <<network, wallets, gwWallets, beyondRequests>>

\* telegramService.js:459-467 and part_003:180-189: the call binds the
\* parameters and crossChainTransfer awaits init()
CCTPCall(r) ==
    /\ rq[r].kind = "cctp"
    /\ rq[r].pc = "call"
    /\ rq' = [rq EXCEPT ![r].called = TRUE,
                        ![r].call = BindTransferParams(CCTPArgs(r)),
                        ![r].pc = "t_init"]
    /\ UNCHANGED <<network, wallets, gwWallets, beyondRequests>>

\* part_003:192: BigInt takes an integer literal, decimal or 0x-hexadecimal
ConvertsToBigInt(arg) == arg.is \in {"amount", "address"}

\* part_003:190-200: after init() the transfer reads the current network,
\* converts the amount and sends the Step 1 message
TransferReadNetwork(r) ==
    /\ rq[r].pc = "t_init"
    /\ \/ /\ ~ConvertsToBigInt(rq[r].call.amount)
          /\ rq' = [rq EXCEPT ![r].srcNetwork = network,
                              ![r].pc = "raised", ![r].err = SyntaxErrorMsg]
       \/ /\ ConvertsToBigInt(rq[r].call.amount)
          /\ rq' = [rq EXCEPT ![r].srcNetwork = network,
                              ![r].pc = "raised", ![r].err = NotifierErrorMsg]
       \/ /\ ConvertsToBigInt(rq[r].call.amount)
          /\ rq' = [rq EXCEPT ![r].srcNetwork = network, ![r].pc = "submit_approve"]
    /\ UNCHANGED <<network, wallets, gwWallets, beyondRequests>>

\* part_003:202-218: the approve is submitted for the wallet of the call,
\* whatever other transfers of that wallet are doing
ConcurrentSubmitApprove_OnePerWallet(r) ==
    /\ rq[r].pc = "submit_approve"
    /\ \A q \in Reqs \ {r} :
         ~(rq[q].called /\ rq[q].approve = "PENDING"
             /\ rq[q].call.walletId = rq[r].call.walletId)
    /\ \/ RqRaise(r, GatewayErrorMsg)
       \/ rq' = [rq EXCEPT ![r].approve = "PENDING", ![r].pc = "poll_approve"]
    /\ UNCHANGED <<network, wallets, gwWallets, beyondRequests>>

ConcurrentSubmitApprove(r) ==
    /\ rq[r].pc = "submit_approve"
    /\ \/ RqRaise(r, GatewayErrorMsg)
       \/ rq' = [rq EXCEPT ![r].approve = "PENDING", ![r].pc = "poll_approve"]
    /\ UNCHANGED <<network, wallets, gwWallets, beyondRequests>>

\* the chain decides a submitted approve
ApproveProgress(r) ==
    /\ rq[r].approve = "PENDING"
    /\ \E st \in {"CONFIRMED", "FAILED"} : rq' = [rq EXCEPT ![r].approve = st]
    /\ UNCHANGED <<network, wallets, gwWallets, beyondRequests>>

\* part_003:223-378: the poll that sees the approve decided (a poll that
\* sees it pending waits and polls again); after a confirmed approve come
\* burn, attestation and receive, and the record is returned or an error
\* raised
ConcurrentPollApprove(r) ==
    /\ rq[r].pc = "poll_approve"
    /\ rq[r].approve # "PENDING"
    /\ IF rq[r].approve = "FAILED"
       THEN RqRaise(r, ApproveFailedMsg)
       ELSE \/ RqRaise(r, GatewayErrorMsg)
            \/ rq' = [rq EXCEPT ![r].pc = "done"]
    /\ UNCHANGED <<network, wallets, gwWallets, beyondRequests>>

\* /cctp commands of one user, and /network of anyone
BridgeInit ==
    /\ amount = <<"2", "5">>
    /\ currentNetwork = "BASE-SEPOLIA"
    /\ destinationNetwork = "ARC-TESTNET"
    /\ TransferAtRest
    /\ PureAtRest
    /\ DepositAtRest
    /\ profile = NoCircleIds
    /\ network \in ConfiguredNetworks
    /\ wallets \in InitialStores
    /\ gwWallets = <<>>
    /\ rq = [r \in Reqs |-> IdleRequest]

BridgeNext ==
    \/ \E r \in Reqs : ReceiveCCTP(r)
    \/ \E r \in Reqs : CCTPDestLookup(r)
    \/ \E r \in Reqs : CreateWallet(r)
    \/ \E r \in Reqs : SaveWallet(r)
    \/ \E r \in Reqs : CCTPCall(r)
    \/ \E r \in Reqs : TransferReadNetwork(r)
    \/ \E r \in Reqs : ConcurrentSubmitApprove(r)
    \/ \E r \in Reqs : ApproveProgress(r)
    \/ \E r \in Reqs : ConcurrentPollApprove(r)
    \/ HandleNetwork

BridgeSpec == BridgeInit /\ [][BridgeNext]_vars

\* C26: a deposit that read a profile without an id creates a provider
\* record with a new id, whatever the other deposits of the user have
\* created or written meanwhile, and each accepted write puts its own id in
\* the profile: the profile holds the id written last.
C26_RacingDepositsCreateDuplicates ==
    [][ \A r \in Reqs :
          /\ (rq[r].pc = "bank" /\ rq'[r].pc = "bank_persist") =>
                /\ ~HasBankAccount(rq[r].row)
                /\ bankCreated' = bankCreated + 1
                /\ rq'[r].bankId \notin { rq[q].bankId : q \in Reqs }
                                        \cup {profile.circle_bank_account_id}
          /\ (rq[r].pc = "recipient" /\ rq'[r].pc = "recipient_persist") =>
                /\ ~HasRecipientAddress(rq[r].row)
                /\ recipientCreated' = recipientCreated + 1
                /\ rq'[r].recipientId \notin { rq[q].recipientId : q \in Reqs }
                                             \cup {profile.circle_recipient_address_id}
          /\ (rq[r].pc = "bank_persist" /\ rq'[r].pc = "recipient") =>
                profile'.circle_bank_account_id = rq[r].bankId
          /\ (rq[r].pc = "recipient_persist" /\ rq'[r].pc = "done") =>
                profile'.circle_recipient_address_id = rq[r].recipientId
      ]_vars

C26_Witness ==
    /\ \A r \in {1, 2} : rq[r].kind = "deposit" /\ rq[r].pc = "done"
    /\ rq[1].row = NoCircleIds
    /\ rq[2].row = NoCircleIds
    /\ bankCreated = 2
    /\ recipientCreated = 2
    /\ bankPersisted = 2
    /\ recipientPersisted = 2
    /\ rq[1].bankId # rq[2].bankId
    /\ rq[1].recipientId # rq[2].recipientId
    /\ profile.circle_bank_account_id \in {rq[1].bankId, rq[2].bankId}
    /\ profile.circle_recipient_address_id \in {rq[1].recipientId, rq[2].recipientId}

C24_TransferNetworkFixedByItsRequest ==
    \A r \in Reqs :
        rq[r].srcNetwork # "none" => rq[r].srcNetwork = rq[r].reqNetwork

\* C25: a transfer that is about to submit its approve can submit it in
\* every state, also while another transfer of the same source wallet has
\* an approve submitted and not yet decided.
C25_NoMutualExclusionOnSourceWallet ==
    \A r \in Reqs : rq[r].pc = "submit_approve" => ENABLED ConcurrentSubmitApprove(r)

C25_Witness ==
    /\ rq[1].called
    /\ rq[2].called
    /\ rq[1].call.walletId = rq[2].call.walletId
    /\ rq[1].pc = "poll_approve"
    /\ rq[2].pc = "poll_approve"
    /\ rq[1].approve = "PENDING"
    /\ rq[2].approve = "PENDING"

\* C28 as stated: a /cctp command of a user with a wallet on the current
\* network and none on the destination network creates a wallet, saves it,
\* and then calls the cross-chain transfer with the new wallet's address
\* and id.
C28_MissingDestinationWalletIsCreatedAndUsed ==
    \A r \in Reqs :
        ( /\ rq[r].kind = "cctp"
          /\ rq[r].pc \in {"done", "raised"}
          /\ rq[r].created # NoCreated
          /\ rq[r].err \notin {WalletStoreErrorMsg, GatewayErrorMsg, NotifierErrorMsg} ) =>
            /\ rq[r].called
            /\ rq[r].call.destinationAddress.is = "address"
            /\ rq[r].call.destinationAddress.value = rq[r].created.address
            /\ rq[r].call.destinationWalletId.is = "walletId"
            /\ rq[r].call.destinationWalletId.value = rq[r].created.walletId

\* C29: when every awaited call returns and every submitted transaction is
\* decided, a transfer that has started ends: it returns the record or
\* raises an error.
C29_EveryTransferTerminates ==
    (pc # "idle") ~> (pc \in {"returned", "raised"})

C29_Witness ==
    /\ pc = "returned"
    /\ result = TransferRecord
    /\ \A id \in {approveTxId, burnTxId, receiveTxId} : txState[id] = "CONFIRMED"

\* the transaction the running poll loop asks about, 0 outside the loops
PolledTx ==
    CASE pc = "poll_approve" -> approveTxId
      [] pc = "poll_burn" -> burnTxId
      [] pc = "poll_receive" -> receiveTxId
      [] OTHER -> 0

\* C30: while the transaction a poll loop asks about is neither CONFIRMED
\* nor FAILED, every step leaves the transfer in that loop with the same
\* transaction, without a result, an error or a new submission; the only
\* way out is a status request that the gateway itself rejects.  The number
\* of pending answers does not matter.
C30_PollHasNoAttemptCeiling ==
    [][ ( /\ PolledTx # 0
          /\ txState[PolledTx] \notin {"CONFIRMED", "FAILED"} ) =>
            \/ /\ pc' = pc
               /\ txIds' = txIds
               /\ gatewayCalls' = gatewayCalls
               /\ result' = result
               /\ error' = error
            \/ /\ pc' = "raised"
               /\ thrown' = GatewayErrorMsg
               /\ gatewayCalls' = gatewayCalls
      ]_vars

C30_Witness ==
    /\ pc = "poll_receive"
    /\ txState[receiveTxId] = "PENDING"
    /\ pollCount = MaxPolls
    /\ pollTick

\* C31: the attestation lookup of a transfer is keyed by the domain id of
\* the source network and by the transaction hash of the status response
\* that showed the burn transaction CONFIRMED: not by the hash of the
\* approve transaction, not by the empty hash of a pending answer, and not
\* by the domain id of a different destination network.
C31_AttestationKeyedBySourceDomainAndBurnHash ==
    attKey # NoKey =>
        /\ HasDomain(currentNetwork)
        /\ attKey[1] = NatToDigits(CCTP.domains[currentNetwork])
        /\ statusResponse.state = "CONFIRMED"
        /\ attKey[2] = statusResponse.txHash
        /\ burnTxId \in TxIds
        /\ txState[burnTxId] = "CONFIRMED"
        /\ attKey[2] = TxHashOf(burnTxId, "CONFIRMED")
        /\ attKey[2] # NoHash
        /\ attKey[2] # TxHashOf(approveTxId, "CONFIRMED")
        /\ ( /\ HasDomain(destinationNetwork)
             /\ CCTP.domains[destinationNetwork] # CCTP.domains[currentNetwork] ) =>
               attKey[1] # NatToDigits(CCTP.domains[destinationNetwork])

C31_Witness ==
    /\ pc = "att_loop"
    /\ attKey # NoKey
    /\ attReqs >= 1
    /\ currentNetwork = "ARC-TESTNET"
    /\ destinationNetwork = "BASE-SEPOLIA"

\* C32: every receive submission of a transfer is made for the destination
\* wallet, to the message transmitter of the destination network, and its
\* parameters are the message and the attestation of the response that
\* reported complete; no receive is submitted after a response that was
\* not complete.
C32_ReceiveCarriesTheCompleteAttestation ==
    \A i \in 1..Len(gatewayCalls) :
        gatewayCalls[i].fn = "receiveMessage(bytes,bytes)" =>
            /\ gatewayCalls[i].walletId = destinationWalletId
            /\ HasContracts(destinationNetwork)
            /\ gatewayCalls[i].contractAddress =
                 CCTP.contracts[destinationNetwork].messageTransmitter
            /\ gatewayCalls[i].feeLevel = "MEDIUM"
            /\ lastResp.kind = "complete"
            /\ firstComplete = attReqs
            /\ gatewayCalls[i].abiParameters = <<lastResp.message, lastResp.attestation>>
            /\ [message |-> lastResp.message, attestation |-> lastResp.attestation]
                 \in AttestationPairs

C32_Witness ==
    /\ pc = "poll_receive"
    /\ currentNetwork = "ARC-TESTNET"
    /\ destinationNetwork = "BASE-SEPOLIA"
    /\ attReqs >= 2
    /\ \E i \in 1..Len(gatewayCalls) :
         /\ gatewayCalls[i].fn = "receiveMessage(bytes,bytes)"
         /\ gatewayCalls[i].id = receiveTxId

\* C33: within one transfer the allowance of the approve call and the
\* amount of the burn call are the same base-unit amount; the approve is
\* made on the stablecoin contract of the source network for the bridge
\* contract of the source network; the burn names the domain id of the
\* destination network.
C33_ApproveAndBurnAgree ==
    \A i \in 1..Len(gatewayCalls) :
        /\ gatewayCalls[i].fn = "approve(address,uint256)" =>
             /\ gatewayCalls[i].contractAddress = CCTP.contracts[currentNetwork].usdc
             /\ gatewayCalls[i].abiParameters[1] =
                  CCTP.contracts[currentNetwork].tokenMessenger
             /\ gatewayCalls[i].abiParameters[2] = BigIntToString(usdcAmount)
             /\ gatewayCalls[i].walletId = walletId
        /\ gatewayCalls[i].fn =
             "depositForBurn(uint256,uint32,bytes32,address,bytes32,uint256,uint32)" =>
             /\ gatewayCalls[i].contractAddress =
                  CCTP.contracts[currentNetwork].tokenMessenger
             /\ gatewayCalls[i].abiParameters[2] =
                  NatToDigits(CCTP.domains[destinationNetwork])
             /\ gatewayCalls[i].walletId = walletId
             /\ \E j \in 1..(i - 1) :
                  /\ gatewayCalls[j].fn = "approve(address,uint256)"
                  /\ gatewayCalls[j].abiParameters[2] = gatewayCalls[i].abiParameters[1]
                  /\ txState[gatewayCalls[j].id] = "CONFIRMED"

C33_Witness ==
    /\ pc = "poll_burn"
    /\ currentNetwork = "BASE-SEPOLIA"
    /\ destinationNetwork = "ARC-TESTNET"
    /\ usdcAmount = 25 * UsdcScale
    /\ \E i \in 1..Len(gatewayCalls) :
         /\ gatewayCalls[i].id = burnTxId
         /\ gatewayCalls[i].abiParameters[1] = BigIntToString(25 * UsdcScale)

\* C34: a successful attestation response without a first message, or
\* whose first message has a status other than complete, is neither a
\* success nor an abort: no attestation is taken from it, it has counted as
\* one of the 30 attempts, and while attempts remain the wait is still in
\* its loop and the next attempt can be made; after the 30th the wait ends
\* with the timeout.
C34_IncompleteResponseIsRetried ==
    lastResp.kind \in {"incomplete", "empty"} =>
        /\ attestation = NoAttestation
        /\ attReqs = attempts
        /\ attempts \in 1..maxAttempts
        /\ pc \in {"att_loop", "raised"}
        /\ pc = "raised" => (error = TimeoutMsg /\ attempts = maxAttempts)
        /\ attempts < maxAttempts =>
             /\ pc = "att_loop"
             /\ error = NoError
             /\ ENABLED AttestationAttempt

C34_Witness ==
    /\ lastResp.kind = "empty"
    /\ pc = "att_loop"
    /\ attempts = 3
    /\ ~earlierAllNotFound

\* C35: a profile write made with only a bank-account id sets that column
\* and leaves the stored recipient-address id as it was; a write made with
\* only a recipient-address id sets that column and leaves the stored
\* bank-account id as it was; the row keeps its columns, the update carries
\* exactly the one column, and no other step of a deposit changes the row.
C35_PersistingOneIdKeepsTheOther ==
    [][ /\ (dpc = "bank_persist" /\ dpc' = "bank_added") =>
             /\ DOMAIN UpdateData(bankAccountId, 0) = {"circle_bank_account_id"}
             /\ profile'.circle_bank_account_id = bankAccountId
             /\ profile'.circle_recipient_address_id = profile.circle_recipient_address_id
             /\ DOMAIN profile' = DOMAIN profile
        /\ (dpc = "recipient_persist" /\ dpc' = "provider_transfer") =>
             /\ DOMAIN UpdateData(0, recipientAddressId) = {"circle_recipient_address_id"}
             /\ profile'.circle_recipient_address_id = recipientAddressId
             /\ profile'.circle_bank_account_id = profile.circle_bank_account_id
             /\ DOMAIN profile' = DOMAIN profile
        /\ (dpc' \notin {"bank_added", "provider_transfer"} \/ dpc' = dpc) =>
             profile' = profile ]_vars

\* a user with a stored recipient address and no bank account has had the
\* new bank-account id persisted, and the recipient address is still stored
C35_Witness ==
    /\ user.circle_bank_account_id = 0
    /\ user.circle_recipient_address_id = StoredRecipientId
    /\ bankPersisted = 1
    /\ profile.circle_bank_account_id = bankAccountId
    /\ bankAccountId \in ProviderIds
    /\ profile.circle_recipient_address_id = StoredRecipientId

\* a provider request of the running deposit was rejected
ProviderStepFailed == \E i \in 1..Len(providerCalls) : ~providerCalls[i].ok

\* the provider request op of the running deposit was accepted
StepSucceeded(op) ==
    \E i \in 1..Len(providerCalls) : providerCalls[i].op = op /\ providerCalls[i].ok

\* C36: a deposit in which a provider request was rejected, or which ended
\* with the provider's, the users table's or the fallback error, has not
\* called crossChainTransfer; a deposit that has called it holds a bank
\* account id and a recipient address id, had its wire instructions, its
\* mock wire and its provider transfer accepted, had no request rejected,
\* and has called it once.
C36_FailedProviderStepSubmitsNothing ==
    dpc # "idle" =>
        /\ ProviderStepFailed => (bridgeCalls = <<>> /\ dpc = "raised")
        /\ (dpc = "raised" /\ dError.message \in {ProviderErrorMsg, StoreErrorMsg, FallbackMsg}) =>
             bridgeCalls = <<>>
        /\ dpc \in {"all_done", "returned"} => bridgeCalls # <<>>
        /\ bridgeCalls # <<>> =>
             /\ Len(bridgeCalls) = 1
             /\ ~ProviderStepFailed
             /\ bankAccountId # 0
             /\ StepSucceeded("getWireInstructions")
             /\ StepSucceeded("mockWire")
             /\ recipientAddressId # 0
             /\ StepSucceeded("createTransfer")
             /\ ~HasBankAccount(user) => StepSucceeded("createBankAccount")
             /\ ~HasRecipientAddress(user) => StepSucceeded("createRecipientAddress")

\* a deposit whose wire instructions were refused has ended without a bridge
\* call
C36_Witness ==
    /\ dpc = "raised"
    /\ dError = Err(ProviderErrorMsg)
    /\ Len(providerCalls) >= 1
    /\ providerCalls[Len(providerCalls)].op = "getWireInstructions"
    /\ ~providerCalls[Len(providerCalls)].ok
    /\ bridgeCalls = <<>>

\* C37 as stated: when a /start or a deposit command has created a wallet
\* and called saveWallet for it (and the table did not refuse the request
\* for a reason of its own), the id given to saveWallet is the id
\* createWallet returned, the gateway holds that wallet on the network the
\* row is labelled with, and the wallets table holds the row with that id,
\* the wallet's address and that network.
C37_SavedWalletCarriesGatewayIdAndNetwork ==
    \A r \in Reqs :
        ( /\ rq[r].kind \in {"start", "deposit"}
          /\ rq[r].created # NoCreated
          /\ rq[r].pc \notin {"create", "save"}
          /\ rq[r].err # WalletStoreErrorMsg ) =>
            /\ rq[r].savedId = rq[r].created.walletId
            /\ rq[r].created.blockchain = rq[r].label
            /\ \E g \in 1..Len(gwWallets) :
                 /\ gwWallets[g].id = rq[r].created.walletId
                 /\ gwWallets[g].blockchain = rq[r].label
            /\ \E i \in 1..Len(wallets) :
                 wallets[i] = WalletRow(rq[r].tg_id, rq[r].created.walletId,
                                        rq[r].created.address, rq[r].label)

====
